---- MODULE Spec2Model ----
(***************************************************************************)
(* tx-fees: the event-to-fee pipeline.                                     *)
(*                                                                         *)
(*   - the block resolver (find_closest_block / avg_ts_to_block_number),   *)
(*   - the batch worker loop (JobExecutorApp::run),                        *)
(*   - the real-time ingester loop (FeeTrackerApp::run),                   *)
(*   - the job submission endpoint (create_batch_job),                     *)
(*   - the store writes (store_block / store_tx).                          *)
(*                                                                         *)
(* Spec     : ingester, worker and submission endpoint running together    *)
(*            over one store, one queue and one chain.                     *)
(* SpecR    : one call of find_closest_block on a chain and a target       *)
(*            drawn from bounded sets, one loop iteration per step.        *)
(* SpecE    : one call of get_events_range on a list of logs and a block   *)
(*            range drawn from bounded sets, one RPC call per step.        *)
(* SpecApi  : the endpoints create_batch_job and get_job_status, with      *)
(*            their responses, next to the batch worker.                   *)
(* SpecF    : one call of calculate_tx_fee_usdt in f64 arithmetic, on      *)
(*            arguments drawn from bounded sets.                           *)
(* SpecFees : the fee endpoint get_fee next to the ingester.               *)
(* SpecMain : main's select_all over the three tasks.                      *)
(* Spec2W   : two batch workers on one queue.                              *)
(* SpecLive : Spec with fair worker and ingester steps.                    *)
(* SpecStore: Spec with the two read endpoints.                            *)
(* SpecQ    : the queue with several jobs waiting.                         *)
(* SpecS    : one call of avg_ts_to_block_number at the width of u64.      *)
(* SpecP    : one call of get_pair_price on a timestamp and a response     *)
(*            drawn from bounded sets.                                     *)
(***************************************************************************)
EXTENDS Integers, Sequences, FiniteSets, TLC

\* ------------------------------------------------------------------ bounds

\* SpecR: a chain has 2..MaxChainLen blocks (numbers 0..Len-1, the last one
\* is the latest block).
MaxChainLen == 5

\* SpecR: re-seeds are counted up to this number (the loop itself is not cut).
MaxReseeds == 4

\* SpecR: targets range from TargetMargin seconds before the first block to
\* TargetMargin seconds after the latest block.
TargetMargin == 2

\* Spec: at most MaxJobs BatchJob rows are created.
MaxJobs == 1

\* SpecE: the watched address has emitted at most MaxLogs logs.
MaxLogs == 3

\* Jobs submitted in SpecQ, where ids wait in the queue together.
MaxWaiting == 2

\* ------------------------------------------------------- program constants

AVG_BLOCK_TIME == 12

DEFI_START == 1514764800

\* Timestamp of block 0 of the modelled chains.
ChainT0 == DEFI_START

\* Gaps between the timestamps of adjacent blocks (strictly increasing chain).
ResGaps == {1, 6, 12, 14, 20}

\* Spec: the chains the system runs on, as the gaps between their three
\* blocks: a regular chain and one with a late and an early block.
SysGaps == {<<12, 12>>, <<20, 14>>}

\* SystemTime::now() at the submission endpoint.
Now == DEFI_START + 100

\* The (start_time, end_time) pairs of submitted requests: two valid ranges,
\* then a start before 2018-01-01, an end in the future, an end before the
\* start, and an empty range.
ReqRanges ==
    { <<DEFI_START, DEFI_START + 24>>,
      <<DEFI_START + 10, DEFI_START + 11>>,
      <<DEFI_START - 1, DEFI_START + 24>>,
      <<DEFI_START, Now + 1>>,
      <<DEFI_START + 11, DEFI_START + 10>>,
      <<DEFI_START + 24, DEFI_START + 24>> }

\* Rates the price oracle may answer with.
Rates == {2000, 2500}

\* get_pair_price(Some(timestamp)): the close of the 1-second candle at that
\* time, a fixed fact of the exchange's history.
KlineCloseAt(timestamp) == IF timestamp % 2 = 0 THEN 2000 ELSE 2500

\* The transactions of the watched address, the block each was confirmed in,
\* and its receipt.
TxHashes == {"t1", "t2", "t3"}

NoTx == "none"

Receipt(tx) ==
    CASE tx = "t1" -> [block_number |-> 1, effective_gas_price |-> 3, gas_used |-> 2]
      [] tx = "t2" -> [block_number |-> 1, effective_gas_price |-> 5, gas_used |-> 1]
      [] OTHER     -> [block_number |-> 2, effective_gas_price |-> 4, gas_used |-> 2]

\* The logs the watched address emitted: a transaction may emit several logs,
\* and a log may carry no transaction hash.
ChainLogs ==
    << [tx |-> "t1", block |-> 1], [tx |-> "t1", block |-> 1],
       [tx |-> "t2", block |-> 1], [tx |-> NoTx, block |-> 1],
       [tx |-> "t3", block |-> 2] >>

BlockHash(n) == <<"h", n>>

\* ------------------------------------------------------------------- state

VARIABLES
    chain,      \* the chain: chain[n+1] is the timestamp of block n; the last block is the latest
    \* --- the store and the queue
    blocks,     \* table blocks: the rows [hash, number, eth_usdt]
    txs,        \* table txs: the rows [hash, block_hash, fee_usdt]
    jobs,       \* table batch_jobs: jobs[id] = [start_time, end_time, start_block, end_block, status]
    queue,      \* redis list batch_jobs: RPUSH appends at the end, BRPOP takes from the end
    \* --- the batch worker (JobExecutorApp::run)
    wPc,        \* "idle", "claimed", "resolve", "scan", "groups", "txs", "hung", "dead"
    wErr,       \* why the worker loop ended ("none" while it runs)
    wJob,       \* job_id of the last delivery (0: none); while idle, a delivery that was ignored
    wGroups,    \* events still to be processed: block numbers returned by get_events_range
    wBlock,     \* the group being stored: [number, rate] (number -1: none)
    wTxsLeft,   \* tx_fees of the group being stored that are not yet written
    failedJobs, \* job ids whose processing failed after the job was set to processing
    \* --- the real-time ingester (FeeTrackerApp::run)
    iPc,        \* "wait", "store_block", "store_tx", "ended", "dead"
    iErr,       \* why the ingester loop ended ("none" while it runs)
    seen_txs,   \* HashSet of transaction hashes
    seen_blocks,\* HashMap block_hash -> eth_usdt, as a set of [hash, rate]
    iCur,       \* the receipt being processed: [tx, number, rate] (tx NoTx: none)
    \* --- one call of find_closest_block (SpecR)
    rPc,        \* find_closest_block: "idle", "loop", "done", "panic", "err"
    rTarget,    \* find_closest_block: target_ts
    rEst,       \* find_closest_block: estimated_block
    rResult,    \* find_closest_block: the returned block number (-1: none)
    rReseeds,   \* find_closest_block: re-seeds of estimated_block so far (capped)
    rVisited,   \* find_closest_block: estimates the loop has looked at so far
    rLookups,   \* find_closest_block: get_block calls of the last iteration
    \* --- one call of get_events_range (SpecE)
    ePc,        \* get_events_range: "idle", "run", "done", "err"
    eLogs,      \* all logs the watched address has emitted on the chain
    eRange,     \* the filter's <<from_block, to_block>>
    eLeft,      \* unique_txs not yet iterated: transaction hash -> number of copies
    eByBlock,   \* events_by_block: block_num -> Vec of (tx_hash, gas_price, gas_used)
    eFinal,     \* final_events: (block_num, timestamp) -> Vec of (tx_hash, gas_price, gas_used)
    \* --- the HTTP endpoints (SpecApi)
    aReq,       \* the last request: [op, start_time, end_time, job_id]
    aResp,      \* its response: [status, job_id, job_status, start_time, end_time]
    \* --- one call of calculate_tx_fee_usdt (SpecF)
    fPc,        \* calculate_tx_fee_usdt: "idle", "done"
    fIn,        \* its arguments: [gas_price, gas_used, eth_usdt]
    fOut,       \* its result, an f64
    \* --- a second instance of the batch worker (Spec2W)
    w2Pc,       \* its position, as wPc
    w2Job,      \* its job_id
    w2Groups,   \* its events not yet processed
    w2Block,    \* its group in progress: [number, rate]
    w2TxsLeft,  \* its tx_fees not yet stored
    \* --- main and the API server task (SpecMain)
    mainPc,     \* main: "waiting" in select_all, "returned"
    apiPc,      \* the API server task: "running", "dead", "cancelled"
    \* --- the fee endpoint (SpecFees)
    qReq,       \* the last request's tx_hash
    qResp,      \* its response: [status, error, tx_hash, block_hash, block_number, fee_usdt, eth_usdt_ratio]
    \* --- one call of avg_ts_to_block_number (SpecS)
    sPc,        \* "idle", "done"
    sIn,        \* [avg_block_time, target_ts, src_ts, src_block_num]
    sOut,       \* the block number returned
    \* --- one call of get_pair_price (SpecP)
    pPc,        \* "idle", "done"
    pIn,        \* [ts, transport, body]
    pOut        \* [url, result]

storevars == <<blocks, txs, jobs, queue>>

wvars == <<wPc, wErr, wJob, wGroups, wBlock, wTxsLeft, failedJobs>>

ivars == <<iPc, iErr, seen_txs, seen_blocks, iCur>>

rvars == <<rPc, rTarget, rEst, rResult, rReseeds, rVisited, rLookups>>

evars == <<ePc, eLogs, eRange, eLeft, eByBlock, eFinal>>

avars == <<aReq, aResp>>

fvars == <<fPc, fIn, fOut>>

w2vars == <<w2Pc, w2Job, w2Groups, w2Block, w2TxsLeft>>

tvars == <<mainPc, apiPc>>

qvars == <<qReq, qResp>>

svars == <<sPc, sIn, sOut>>

pvars == <<pPc, pIn, pOut>>

cvars == <<svars, pvars>>

xvars == <<w2vars, tvars, qvars, cvars>>

vars == <<chain, storevars, wvars, ivars, rvars, evars, avars, fvars, xvars>>

\* ------------------------------------------- natural numbers of any size
\*
\* Natural numbers of any size are sequences of limbs in 0..LimbBase-1, the
\* least significant limb first, without leading zero limbs (zero is <<>>).

LimbBits == 15

LimbBase == 32768

RECURSIVE Pow2(_)
Pow2(k) == IF k = 0 THEN 1 ELSE 2 * Pow2(k - 1)

RECURSIVE BigNorm(_)
BigNorm(a) ==
    IF a = <<>> THEN <<>>
    ELSE IF a[Len(a)] = 0 THEN BigNorm(SubSeq(a, 1, Len(a) - 1)) ELSE a

RECURSIVE BigFromInt(_)
BigFromInt(n) == IF n = 0 THEN <<>> ELSE <<n % LimbBase>> \o BigFromInt(n \div LimbBase)

Limb(a, i) == IF i >= 1 /\ i <= Len(a) THEN a[i] ELSE 0

RECURSIVE BigAddFrom(_, _, _, _)
BigAddFrom(a, b, i, carry) ==
    IF i > Len(a) /\ i > Len(b)
    THEN IF carry = 0 THEN <<>> ELSE <<carry>>
    ELSE LET s == Limb(a, i) + Limb(b, i) + carry
         IN  <<s % LimbBase>> \o BigAddFrom(a, b, i + 1, s \div LimbBase)

BigAdd(a, b) == BigAddFrom(a, b, 1, 0)

\* a - b for a >= b
RECURSIVE BigSubFrom(_, _, _, _)
BigSubFrom(a, b, i, borrow) ==
    IF i > Len(a) THEN <<>>
    ELSE LET d == Limb(a, i) - Limb(b, i) - borrow
         IN  IF d < 0
             THEN <<d + LimbBase>> \o BigSubFrom(a, b, i + 1, 1)
             ELSE <<d>> \o BigSubFrom(a, b, i + 1, 0)

BigSub(a, b) == BigNorm(BigSubFrom(a, b, 1, 0))

\* -1, 0, 1 as a < b, a = b, a > b
RECURSIVE BigCmpAt(_, _, _)
BigCmpAt(a, b, i) ==
    IF i = 0 THEN 0
    ELSE IF a[i] < b[i] THEN -1
    ELSE IF a[i] > b[i] THEN 1
    ELSE BigCmpAt(a, b, i - 1)

BigCmp(a, b) ==
    IF Len(a) < Len(b) THEN -1
    ELSE IF Len(a) > Len(b) THEN 1
    ELSE BigCmpAt(a, b, Len(a))

BigAbsDiff(a, b) == IF BigCmp(a, b) >= 0 THEN BigSub(a, b) ELSE BigSub(b, a)

\* a * d for one limb d
RECURSIVE BigMulLimbFrom(_, _, _, _)
BigMulLimbFrom(a, d, i, carry) ==
    IF i > Len(a)
    THEN IF carry = 0 THEN <<>> ELSE <<carry>>
    ELSE LET s == a[i] * d + carry
         IN  <<s % LimbBase>> \o BigMulLimbFrom(a, d, i + 1, s \div LimbBase)

\* a * LimbBase^n
BigShiftLimbs(a, n) == IF a = <<>> THEN <<>> ELSE [i \in 1..n |-> 0] \o a

RECURSIVE BigMulFrom(_, _, _)
BigMulFrom(a, b, i) ==
    IF i > Len(b) THEN <<>>
    ELSE BigAdd(BigShiftLimbs(BigNorm(BigMulLimbFrom(a, b[i], 1, 0)), i - 1),
                BigMulFrom(a, b, i + 1))

BigMul(a, b) == IF a = <<>> \/ b = <<>> THEN <<>> ELSE BigNorm(BigMulFrom(a, b, 1))

\* 2^k
BigPow2(k) == [i \in 1..(k \div LimbBits) |-> 0] \o <<Pow2(k % LimbBits)>>

RECURSIVE BigPow10(_)
BigPow10(p) == IF p = 0 THEN <<1>> ELSE BigMul(BigPow10(p - 1), <<10>>)

RECURSIVE IntBitLen(_)
IntBitLen(n) == IF n = 0 THEN 0 ELSE 1 + IntBitLen(n \div 2)

\* The number of bits of a (0 for zero).
BigBitLen(a) == IF a = <<>> THEN 0 ELSE (Len(a) - 1) * LimbBits + IntBitLen(a[Len(a)])

\* a div 2^k
BigShr(a, k) ==
    LET q == k \div LimbBits
        r == k % LimbBits
    IN  IF q >= Len(a) THEN <<>>
        ELSE BigNorm([i \in 1..(Len(a) - q) |->
                        (a[i + q] \div Pow2(r))
                        + (Limb(a, i + q + 1) % Pow2(r)) * Pow2(LimbBits - r)])

\* a mod 2^k
BigLow(a, k) ==
    LET q == k \div LimbBits
        r == k % LimbBits
    IN  IF q >= Len(a) THEN a
        ELSE BigNorm(SubSeq(a, 1, q) \o <<a[q + 1] % Pow2(r)>>)

BigIsOdd(a) == a # <<>> /\ a[1] % 2 = 1

\* ------------------------------------------------------------ the chain RPC

Abs(x) == IF x >= 0 THEN x ELSE -x

\* Rust's integer division truncates toward zero.
TruncDiv(a, b) == IF a >= 0 THEN a \div b ELSE -((-a) \div b)

\* BlockId::latest()
LatestNum(ch) == Len(ch) - 1

\* provider.get_block(n): Some(block) exactly for 0..latest.
BlockExists(ch, n) == n >= 0 /\ n <= LatestNum(ch)

BlockTs(ch, n) == ch[n + 1]

RECURSIVE ChainsOfLen(_)
ChainsOfLen(n) ==
    IF n = 1 THEN {<<ChainT0>>}
    ELSE {Append(c, c[Len(c)] + g) : c \in ChainsOfLen(n - 1), g \in ResGaps}

ResChains == UNION {ChainsOfLen(n) : n \in 2..MaxChainLen}

\* ------------------------------------------------------------- the resolver

\* u64::MAX
U64_MAX == BigSub(BigPow2(64), <<1>>)

\* u64::saturating_sub
saturating_sub(a, b) == IF BigCmp(a, b) < 0 THEN <<>> ELSE BigSub(a, b)

\* u64::saturating_add
saturating_add(a, b) ==
    LET sum == BigAdd(a, b)
    IN  IF BigCmp(sum, U64_MAX) > 0 THEN U64_MAX ELSE sum

\* The value of a number that fits the model's integers.
RECURSIVE BigToInt(_)
BigToInt(a) == IF a = <<>> THEN 0 ELSE a[1] + LimbBase * BigToInt(Tail(a))

\* Mutant: the quotient is rounded down instead of toward zero.
avg_ts_to_block_number_u64_floor(avg_block_time, target_ts, src_ts, src_block_num) ==
    LET block_num_diff == (src_ts - target_ts) \div avg_block_time
    IN  IF block_num_diff >= 0
        THEN saturating_sub(src_block_num, BigFromInt(block_num_diff))
        ELSE saturating_add(src_block_num, BigFromInt(Abs(block_num_diff)))

\* avg_ts_to_block_number with the block numbers at their full width (u64).
avg_ts_to_block_number_u64(avg_block_time, target_ts, src_ts, src_block_num) ==
    LET block_num_diff == TruncDiv(src_ts - target_ts, avg_block_time)
    IN  IF block_num_diff >= 0
        THEN saturating_sub(src_block_num, BigFromInt(block_num_diff))
        ELSE saturating_add(src_block_num, BigFromInt(Abs(block_num_diff)))

\* Mutant: the estimate is one block too high.
avg_ts_to_block_number_off_by_one(avg_block_time, target_ts, src_ts, src_block_num) ==
    LET block_num_diff == TruncDiv(src_ts - target_ts, avg_block_time)
    IN  IF block_num_diff >= 0
        THEN (IF block_num_diff > src_block_num THEN 0 ELSE src_block_num - block_num_diff) + 1
        ELSE src_block_num + Abs(block_num_diff) + 1

\* avg_ts_to_block_number on block numbers that fit the model's integers.
avg_ts_to_block_number(avg_block_time, target_ts, src_ts, src_block_num) ==
    BigToInt(avg_ts_to_block_number_u64(avg_block_time, target_ts, src_ts,
                                        BigFromInt(src_block_num)))

\* The seed of the loop: the estimate from the latest block.
SeedEstimate(ch, target_ts) ==
    avg_ts_to_block_number(AVG_BLOCK_TIME, target_ts,
                           BlockTs(ch, LatestNum(ch)), LatestNum(ch))

\* The block the range test returns when target_ts lies in [current_ts, next_ts].
CloserOf(est, target_ts, current_ts, next_ts) ==
    IF target_ts - current_ts < next_ts - target_ts THEN est ELSE est + 1

\* One iteration of the loop of find_closest_block at estimate est.
\* kind "ret": return Ok(block); "reseed": estimated_block := est;
\* "panic": unwrap() of a block that does not exist (or est - 1 below zero).
LoopStep(ch, target_ts, est) ==
    IF ~BlockExists(ch, est)
    THEN [kind |-> "panic", block |-> -1, est |-> est, lookups |-> 1]
    ELSE
    LET current_ts == BlockTs(ch, est) IN
    IF target_ts = current_ts
    THEN [kind |-> "ret", block |-> est, est |-> est, lookups |-> 1]
    ELSE IF ~BlockExists(ch, est + 1)
    THEN [kind |-> "panic", block |-> -1, est |-> est, lookups |-> 2]
    ELSE
    LET next_ts == BlockTs(ch, est + 1) IN
    IF target_ts >= current_ts /\ target_ts <= next_ts
    THEN [kind |-> "ret", block |-> CloserOf(est, target_ts, current_ts, next_ts),
          est |-> est, lookups |-> 2]
    ELSE IF target_ts < current_ts /\ (current_ts - target_ts) < AVG_BLOCK_TIME
    THEN IF est = 0
         THEN [kind |-> "panic", block |-> -1, est |-> est, lookups |-> 3]
         ELSE IF target_ts >= BlockTs(ch, est - 1)
         THEN [kind |-> "ret", block |-> est - 1, est |-> est, lookups |-> 3]
         ELSE [kind |-> "reseed", block |-> -1,
               est |-> avg_ts_to_block_number(AVG_BLOCK_TIME, target_ts, current_ts, est),
               lookups |-> 3]
    ELSE [kind |-> "reseed", block |-> -1,
          est |-> avg_ts_to_block_number(AVG_BLOCK_TIME, target_ts, next_ts, est + 1),
          lookups |-> 2]

\* find_closest_block run to its end: "ret" with the block, "panic", or "hang"
\* when the loop comes back to an estimate it already looked at (the loop is
\* deterministic, so it then never ends).
RECURSIVE RunLoop(_, _, _, _)
RunLoop(ch, target_ts, est, visited) ==
    IF est \in visited THEN [kind |-> "hang", block |-> -1]
    ELSE LET s == LoopStep(ch, target_ts, est)
         IN  IF s.kind = "reseed"
             THEN RunLoop(ch, target_ts, s.est, visited \cup {est})
             ELSE [kind |-> s.kind, block |-> s.block]

find_closest_block(ch, target_ts) ==
    RunLoop(ch, target_ts, SeedEstimate(ch, target_ts), {})

\* ----------------------------------------------------------------- the store

Null == -1

\* A table is the set of its rows: no operation reads the order of the rows,
\* and two rows of one key differ in another column whenever the writers can
\* disagree on it (the rate).
HasRow(tbl, h) == \E r \in tbl : r.hash = h

\* Mutant: the table has no key.
BlocksNoKey(tbl, h) == TRUE

\* blocks(hash PK, ...): an INSERT of a hash that is already there is rejected.
BlocksPkAccepts(tbl, h) == ~HasRow(tbl, h)

\* txs(hash PK, ...)
TxsPkAccepts(tbl, h) == ~HasRow(tbl, h)

\* txs(block_hash FK -> blocks.hash)
TxsFkAccepts(btbl, bh) == HasRow(btbl, bh)

\* Mutant: Ok is answered, and no row is written.
store_block_lost(tbl, block_number, block_hash, eth_usdt) == [ok |-> TRUE, rows |-> tbl]

\* Mutant: ON CONFLICT (hash) DO UPDATE, the row of the hash is overwritten.
store_block_upsert(tbl, block_number, block_hash, eth_usdt) ==
    [ok |-> TRUE,
     rows |-> {r \in tbl : r.hash # block_hash}
              \cup {[hash |-> block_hash, number |-> block_number, eth_usdt |-> eth_usdt]}]

\* INSERT INTO blocks (hash, number, eth_usdt): Ok and the new table, or Err.
store_block(tbl, block_number, block_hash, eth_usdt) ==
    IF BlocksPkAccepts(tbl, block_hash)
    THEN [ok |-> TRUE,
          rows |-> tbl \cup {[hash |-> block_hash, number |-> block_number,
                               eth_usdt |-> eth_usdt]}]
    ELSE [ok |-> FALSE, rows |-> tbl]

\* INSERT INTO txs (hash, block_hash, fee_usdt): Ok and the new table, or Err.
store_tx(tbl, btbl, tx_hash, block_hash, fee_usdt) ==
    IF TxsPkAccepts(tbl, tx_hash) /\ TxsFkAccepts(btbl, block_hash)
    THEN [ok |-> TRUE,
          rows |-> tbl \cup {[hash |-> tx_hash, block_hash |-> block_hash,
                               fee_usdt |-> fee_usdt]}]
    ELSE [ok |-> FALSE, rows |-> tbl]

\* gas_price * gas_used * 1e-18 * eth_usdt as the store's rows carry it in
\* Spec: in units of 1e-18 USDT (the f64 arithmetic itself is modelled below).
calculate_tx_fee_usdt(gas_price, gas_used, eth_usdt) == (gas_price * gas_used) * eth_usdt

\* ------------------------------------------------------ f64 arithmetic

\* An f64 is [kind, m, e]: kind "finite" with the value m * 2^e (m below
\* 2^53), or "inf" after an overflow, or "subnormal" for a result below the
\* normal range (whose rounding is not modelled).
F64_MANTISSA_DIGITS == 53

F64_MAX_EXP == 1024

F64_MIN_EXP == -1021

\* The f64 nearest to p * 2^e, ties to the even mantissa.
RoundF64(p, e) ==
    LET len == BigBitLen(p)
        k == len - F64_MANTISSA_DIGITS
        r == IF k <= 0 THEN [m |-> p, e |-> e]
             ELSE LET q == BigShr(p, k)
                      c == BigCmp(BigLow(p, k), BigPow2(k - 1))
                      up == c > 0 \/ (c = 0 /\ BigIsOdd(q))
                  IN  [m |-> IF up THEN BigAdd(q, <<1>>) ELSE q, e |-> e + k]
        top == BigBitLen(r.m) + r.e
    IN  IF r.m = <<>> THEN [kind |-> "finite", m |-> <<>>, e |-> 0]
        ELSE IF top > F64_MAX_EXP THEN [kind |-> "inf", m |-> <<>>, e |-> 0]
        ELSE IF top < F64_MIN_EXP THEN [kind |-> "subnormal", m |-> <<>>, e |-> 0]
        ELSE [kind |-> "finite", m |-> r.m, e |-> r.e]

\* x * y in f64
F64Mul(x, y) ==
    IF x.kind # "finite" THEN x
    ELSE IF y.kind # "finite" THEN y
    ELSE RoundF64(BigMul(x.m, y.m), x.e + y.e)

\* n as f64, for an unsigned integer n
AsF64(n) == RoundF64(n, 0)

\* The literal 1e-18: the f64 0x1.2725dd1d243acp-60, that is
\* 5192296858534828 * 2^-112 (5192296858534828 = 4835703 * 2^30 + 298992556).
F64_1e_18 ==
    [kind |-> "finite",
     m |-> BigAdd(BigMul(BigFromInt(4835703), BigPow2(30)), BigFromInt(298992556)),
     e |-> -112]

\* Mutant: the fee in ETH, the rate left out.
calculate_tx_fee_usdt_f64_eth(gas_price, gas_used, eth_usdt) ==
    F64Mul(F64Mul(AsF64(gas_price), AsF64(gas_used)), F64_1e_18)

\* (gas_price as f64 * gas_used as f64 * 1e-18) * eth_usdt, for the integers
\* gas_price and gas_used and the f64 eth_usdt.
calculate_tx_fee_usdt_f64(gas_price, gas_used, eth_usdt) ==
    F64Mul(F64Mul(F64Mul(AsF64(gas_price), AsF64(gas_used)), F64_1e_18), eth_usdt)

\* The largest d in lo..hi with d * b <= r (0 * b <= r always).
RECURSIVE BigQuotLimb(_, _, _, _)
BigQuotLimb(r, b, lo, hi) ==
    IF lo = hi THEN lo
    ELSE LET mid == (lo + hi + 1) \div 2
         IN  IF BigCmp(BigMul(b, <<mid>>), r) <= 0
             THEN BigQuotLimb(r, b, mid, hi)
             ELSE BigQuotLimb(r, b, lo, mid - 1)

\* Long division, from limb i of a down to limb 1: q and r so far.
RECURSIVE BigDivFrom(_, _, _, _, _)
BigDivFrom(a, b, i, q, r) ==
    IF i = 0 THEN [q |-> q, r |-> r]
    ELSE LET r2 == BigNorm(<<a[i]>> \o r)
             d == BigQuotLimb(r2, b, 0, LimbBase - 1)
         IN  BigDivFrom(a, b, i - 1, BigNorm(<<d>> \o q), BigSub(r2, BigMul(b, <<d>>)))

\* a div b and a mod b, for b # 0
BigDivMod(a, b) == BigDivFrom(a, b, Len(a), <<>>, <<>>)

\* Bits of the quotient kept before rounding: the mantissa and two more.
F64_GUARD_DIGITS == F64_MANTISSA_DIGITS + 2

\* x / y for f64: the quotient to F64_GUARD_DIGITS bits or more and a last bit
\* that is set when the division left a remainder, rounded to an f64.
F64Div(x, y) ==
    IF x.kind # "finite" THEN x
    ELSE IF y.kind = "inf" THEN [kind |-> "finite", m |-> <<>>, e |-> 0]
    ELSE IF y.kind # "finite" THEN y
    ELSE IF y.m = <<>> THEN [kind |-> IF x.m = <<>> THEN "nan" ELSE "inf", m |-> <<>>, e |-> 0]
    ELSE LET need == F64_GUARD_DIGITS + BigBitLen(y.m) - BigBitLen(x.m)
             s == IF need > 0 THEN need ELSE 0
             d == BigDivMod(BigMul(x.m, BigPow2(s)), y.m)
             p == BigAdd(BigAdd(d.q, d.q), IF d.r = <<>> THEN <<>> ELSE <<1>>)
         IN  RoundF64(p, x.e - y.e - s - 1)

\* The literal 1e18: 10^18 is an f64 (5^18 * 2^18, 5^18 below 2^53).
F64_1e18 == AsF64(BigPow10(18))

\* The worker's fee_eth: (gas_price as f64 * gas_used as f64) / 1e18
batch_fee_eth(gas_price, gas_used) ==
    F64Div(F64Mul(AsF64(gas_price), AsF64(gas_used)), F64_1e18)

\* The worker's fee_usdt: fee_eth * eth_price
batch_fee_usdt(gas_price, gas_used, eth_price) ==
    F64Mul(batch_fee_eth(gas_price, gas_used), eth_price)

\* ------------------------------------------------------------- the scanner

InRange(l, from_block, to_block) == l.block >= from_block /\ l.block <= to_block

\* provider.get_logs(&filter): the logs of the address in [from_block, to_block].
get_logs(all, from_block, to_block) ==
    LET idx == {i \in DOMAIN all : InRange(all[i], from_block, to_block)}
        RECURSIVE Pick(_)
        Pick(n) == IF n = 0 THEN <<>>
                   ELSE IF n \in idx THEN Append(Pick(n - 1), all[n]) ELSE Pick(n - 1)
    IN  Pick(Len(all))

\* Mutant: the hashes are collected into a Vec, one copy per log.
unique_txs_per_log(logs) ==
    [t \in {logs[i].tx : i \in DOMAIN logs} \ {NoTx} |->
        Cardinality({i \in DOMAIN logs : logs[i].tx = t})]

\* logs.iter().filter_map(|log| log.transaction_hash).collect::<HashSet>():
\* every transaction hash of the logs, one copy of each.
unique_txs(logs) ==
    [t \in {logs[i].tx : i \in DOMAIN logs} \ {NoTx} |-> 1]

\* Mutant: the key's timestamp is the one of the block before.
GroupKeyPrevTs(ch, block_num) ==
    <<block_num, BlockTs(ch, IF block_num = 0 THEN 0 ELSE block_num - 1)>>

\* The key of a group in final_events: (block_num, block.header.timestamp).
GroupKey(ch, block_num) == <<block_num, BlockTs(ch, block_num)>>

\* The entry pushed for a transaction: (tx_hash, effective_gas_price, gas_used).
EventEntry(tx) == <<tx, Receipt(tx).effective_gas_price, Receipt(tx).gas_used>>

\* get_events_range over [from_block, to_block]: (block_num, timestamp) -> the
\* transactions of that block (a Vec in HashSet iteration order: any order).
get_events_range(ch, from_block, to_block) ==
    LET logs == get_logs(ChainLogs, from_block, to_block)
        txset == DOMAIN unique_txs(logs)
        block_nums == {Receipt(t).block_number : t \in txset}
    IN  [k \in {GroupKey(ch, n) : n \in block_nums} |->
            {t \in txset : Receipt(t).block_number = k[1]}]

\* ------------------------------------------------- the submission endpoint

\* Mutant: the start must lie after 2018-01-01, and the end before now.
is_valid_time_range_strict(start_time, end_time) ==
    start_time > DEFI_START /\ end_time < Now /\ start_time < end_time

is_valid_time_range(start_time, end_time) ==
    start_time >= DEFI_START /\ end_time <= Now /\ start_time < end_time

\* Mutant: the id is not pushed onto the list.
create_batch_job_no_push(jtbl, q, start_time, end_time, outcome) ==
    IF ~is_valid_time_range(start_time, end_time)
    THEN [status |-> 400, job_id |-> Null, jobs |-> jtbl, queue |-> q]
    ELSE LET inserted == Append(jtbl, [start_time |-> start_time, end_time |-> end_time,
                                       start_block |-> Null, end_block |-> Null,
                                       status |-> "pending"])
         IN  [status |-> 201, job_id |-> Len(inserted), jobs |-> inserted, queue |-> q]

\* POST /v1/jobs on the tables jtbl and the list q. outcome: "ok", "db_fail"
\* (the INSERT fails) or "redis_fail" (the connection or the RPUSH fails).
\* The HTTP status of the response, and the table and the list afterwards.
create_batch_job(jtbl, q, start_time, end_time, outcome) ==
    IF ~is_valid_time_range(start_time, end_time)
    THEN [status |-> 400, job_id |-> Null, jobs |-> jtbl, queue |-> q]
    ELSE IF outcome = "db_fail"
    THEN [status |-> 500, job_id |-> Null, jobs |-> jtbl, queue |-> q]
    ELSE LET inserted == Append(jtbl, [start_time |-> start_time, end_time |-> end_time,
                                       start_block |-> Null, end_block |-> Null,
                                       status |-> "pending"])
             job_id == Len(inserted)
         IN  IF outcome = "redis_fail"
             THEN [status |-> 500, job_id |-> Null, jobs |-> inserted, queue |-> q]
             ELSE [status |-> 201, job_id |-> job_id, jobs |-> inserted,
                   queue |-> Append(q, job_id)]

\* A response: the HTTP status and the fields of its JSON body (Null, "": none).
Response(status, job_id, job_status, start_time, end_time) ==
    [status |-> status, job_id |-> job_id, job_status |-> job_status,
     start_time |-> start_time, end_time |-> end_time]

NoResponse == Response(0, Null, "", Null, Null)

NoRequest == [op |-> "none", start_time |-> Null, end_time |-> Null, job_id |-> Null,
              outcome |-> "ok"]

\* The status column, parsed into BatchJobStatus and serialised by serde with
\* rename_all = "lowercase"; "invalid" when no variant matches.
ParseStatus(s) ==
    CASE s = "pending" -> "pending"
      [] s = "in_progress" -> "inprogress"
      [] s = "completed" -> "completed"
      [] OTHER -> "invalid"

\* GET /v1/jobs/{job_id} on the table jtbl. outcome: "ok" or "db_fail" (the
\* SELECT fails).
get_job_status(jtbl, job_id, outcome) ==
    IF outcome = "db_fail"
    THEN Response(500, Null, "", Null, Null)
    ELSE IF job_id \in DOMAIN jtbl
    THEN LET job == jtbl[job_id]
             status == ParseStatus(job.status)
         IN  IF status = "invalid"
             THEN Response(500, Null, "", Null, Null)
             ELSE Response(200, job_id, status, job.start_time, job.end_time)
    ELSE Response(404, Null, "", Null, Null)

\* ---------------------------------------------------------- the fee endpoint

\* A string is the sequence of its characters.
Rep(c, n) == [i \in 1..n |-> c]

\* [A-Fa-f0-9]
HexChars ==
    {"0", "1", "2", "3", "4", "5", "6", "7", "8", "9",
     "a", "b", "c", "d", "e", "f", "A", "B", "C", "D", "E", "F"}

\* {64}
HASH_HEX_LEN == 64

\* Mutant: the pattern without the anchors: a match anywhere in the text.
is_valid_tx_hash_unanchored(tx_hash) ==
    \E k \in 0..(Len(tx_hash) - (2 + HASH_HEX_LEN)) :
        /\ tx_hash[k + 1] = "0"
        /\ tx_hash[k + 2] = "x"
        /\ \A i \in (k + 3)..(k + 2 + HASH_HEX_LEN) : tx_hash[i] \in HexChars

\* The text matches ^0x([A-Fa-f0-9]{64})$
is_valid_tx_hash(tx_hash) ==
    /\ Len(tx_hash) = 2 + HASH_HEX_LEN
    /\ tx_hash[1] = "0"
    /\ tx_hash[2] = "x"
    /\ \A i \in 3..Len(tx_hash) : tx_hash[i] \in HexChars

\* tx_hash.to_string(): the text stored as the hash of transaction tx, "0x"
\* and 64 lower-case hexadecimal digits.
HashText(tx) ==
    <<"0", "x">> \o Rep("0", HASH_HEX_LEN - 1)
                 \o <<CASE tx = "t1" -> "a" [] tx = "t2" -> "b" [] OTHER -> "c">>

FeeResponse(status, error, tx_hash, block_hash, block_number, fee_usdt, eth_usdt_ratio) ==
    [status |-> status, error |-> error, tx_hash |-> tx_hash, block_hash |-> block_hash,
     block_number |-> block_number, fee_usdt |-> fee_usdt, eth_usdt_ratio |-> eth_usdt_ratio]

NoFeeResponse == FeeResponse(0, "", <<>>, <<>>, Null, Null, Null)

\* GET /v1/fees/{tx_hash} on the tables ttbl (txs) and btbl (blocks).
\* outcome: "ok" or "db_fail" (the SELECT fails).
get_fee(ttbl, btbl, tx_hash_str, outcome) ==
    IF ~is_valid_tx_hash(tx_hash_str)
    THEN FeeResponse(400, "Invalid transaction hash format", <<>>, <<>>, Null, Null, Null)
    ELSE IF outcome = "db_fail"
    THEN FeeResponse(500, "", <<>>, <<>>, Null, Null, Null)
    ELSE LET rows == {r \in ttbl \X btbl :
                         r[1].block_hash = r[2].hash /\ HashText(r[1].hash) = tx_hash_str}
         IN  IF rows = {}
             THEN FeeResponse(404, "", <<>>, <<>>, Null, Null, Null)
             ELSE LET r == CHOOSE r \in rows : TRUE
                  IN  FeeResponse(200, "", HashText(r[1].hash), r[1].block_hash, r[2].number,
                                  r[1].fee_usdt, r[2].eth_usdt)

\* A request reaches the submission endpoint (the response is not recorded).
CreateJob ==
    /\ \E req \in ReqRanges, o \in {"ok", "db_fail", "redis_fail"} :
        LET r == create_batch_job(jobs, queue, req[1], req[2], o) IN
        /\ Len(r.jobs) <= MaxJobs
        /\ jobs' = r.jobs
        /\ queue' = r.queue
    /\ UNCHANGED <<chain, blocks, txs, wvars, ivars, rvars, evars, avars, fvars, xvars>>

\* -------------------------------------------------------- the batch worker

\* Mutant: the guard lets every delivery through.
IsPendingNoGuard(job) == TRUE

\* Mutant: the guard only ignores completed jobs.
IsPendingNotCompleted(job) == job.status # "completed"

\* The duplicate-delivery guard.
IsPending(job) == job.status = "pending"

WReset ==
    /\ wJob' = 0
    /\ wGroups' = <<>>
    /\ wBlock' = [number |-> -1, rate |-> 0]
    /\ wTxsLeft' = {}

\* The worker loop ends (Err returned, or the task panics) while it holds wJob.
WDie(err) ==
    /\ wPc' = "dead"
    /\ wErr' = err
    /\ failedJobs' = IF wPc \in {"resolve", "scan", "groups", "txs"}
                     THEN failedJobs \cup {wJob} ELSE failedJobs
    /\ WReset

\* BRPOP, SELECT the job row, and the status guard. The queue delivers at
\* least once: the id taken may stay in the list and be delivered again.
WTake ==
    /\ wPc = "idle"
    /\ queue # <<>>
    /\ LET job_id == queue[Len(queue)] IN
        /\ \/ queue' = SubSeq(queue, 1, Len(queue) - 1)
           \/ UNCHANGED queue
        /\ wJob' = job_id
        /\ wPc' = IF IsPending(jobs[job_id]) THEN "claimed" ELSE "idle"
    /\ UNCHANGED <<chain, blocks, txs, jobs, wErr, wGroups, wBlock, wTxsLeft, failedJobs,
                   ivars, rvars, evars, avars, fvars, xvars>>

\* UPDATE batch_jobs SET status = 'processing'
WSetProcessing ==
    /\ wPc = "claimed"
    /\ jobs' = [jobs EXCEPT ![wJob].status = "processing"]
    /\ wPc' = "resolve"
    /\ UNCHANGED <<chain, blocks, txs, queue, wErr, wJob, wGroups, wBlock,
                   wTxsLeft, failedJobs, ivars, rvars, evars, avars, fvars, xvars>>

\* Mutant: the UPDATE persists start_block only.
WResolveStartOnly ==
    /\ wPc = "resolve"
    /\ LET s == find_closest_block(chain, jobs[wJob].start_time)
       IN  /\ s.kind = "ret"
           /\ jobs' = [jobs EXCEPT ![wJob].start_block = s.block]
           /\ wPc' = "scan"
    /\ UNCHANGED <<chain, blocks, txs, queue, wErr, wJob, wGroups, wBlock, wTxsLeft, failedJobs,
                   ivars, rvars, evars, avars, fvars, xvars>>

\* find_closest_block for start_time, then for end_time, then
\* UPDATE batch_jobs SET start_block, end_block.
WResolve ==
    /\ wPc = "resolve"
    /\ LET s == find_closest_block(chain, jobs[wJob].start_time)
           e == find_closest_block(chain, jobs[wJob].end_time)
       IN  IF s.kind = "ret" /\ e.kind = "ret"
           THEN /\ jobs' = [jobs EXCEPT ![wJob].start_block = s.block,
                                        ![wJob].end_block = e.block]
                /\ wPc' = "scan"
                /\ UNCHANGED <<wErr, wJob, wGroups, wBlock, wTxsLeft, failedJobs>>
           ELSE IF s.kind = "hang" \/ (s.kind = "ret" /\ e.kind = "hang")
           THEN /\ wPc' = "hung"
                /\ UNCHANGED <<jobs, wErr, wJob, wGroups, wBlock, wTxsLeft, failedJobs>>
           ELSE /\ WDie("panic")
                /\ UNCHANGED jobs
    /\ UNCHANGED <<chain, blocks, txs, queue, ivars, rvars, evars, avars, fvars, xvars>>

\* get_events_range over [start_block, end_block]
WScan ==
    /\ wPc = "scan"
    /\ wGroups' = get_events_range(chain, jobs[wJob].start_block, jobs[wJob].end_block)
    /\ wPc' = "groups"
    /\ UNCHANGED <<chain, storevars, wErr, wJob, wBlock, wTxsLeft, failedJobs,
                   ivars, rvars, evars, avars, fvars, xvars>>

\* The next group: get_block, get_pair_price at the block's timestamp, the
\* fees of the group's transactions, store_block.
WBlock ==
    /\ wPc = "groups"
    /\ \E k \in DOMAIN wGroups :
        LET eth_price == KlineCloseAt(BlockTs(chain, k[1]))
            r == store_block(blocks, k[1], BlockHash(k[1]), eth_price)
        IN
        IF r.ok
        THEN /\ blocks' = r.rows
             /\ wBlock' = [number |-> k[1], rate |-> eth_price]
             /\ wTxsLeft' = wGroups[k]
             /\ wGroups' = [g \in DOMAIN wGroups \ {k} |-> wGroups[g]]
             /\ wPc' = "txs"
             /\ UNCHANGED <<wErr, wJob, failedJobs>>
        ELSE /\ WDie("block_conflict")
             /\ UNCHANGED blocks
    /\ UNCHANGED <<chain, txs, jobs, queue, ivars, rvars, evars, avars, fvars, xvars>>

\* store_tx for the next entry of tx_fees; after the last one, the next group.
WTx ==
    /\ wPc = "txs"
    /\ \E t \in wTxsLeft :
        LET fee_usdt == (Receipt(t).effective_gas_price * Receipt(t).gas_used) * wBlock.rate
            r == store_tx(txs, blocks, t, BlockHash(wBlock.number), fee_usdt)
        IN  IF r.ok
            THEN /\ txs' = r.rows
                 /\ wTxsLeft' = wTxsLeft \ {t}
                 /\ wPc' = IF wTxsLeft = {t} THEN "groups" ELSE "txs"
                 /\ UNCHANGED <<wErr, wJob, wGroups, wBlock, failedJobs>>
            ELSE /\ WDie("tx_conflict")
                 /\ UNCHANGED txs
    /\ UNCHANGED <<chain, blocks, jobs, queue, ivars, rvars, evars, avars, fvars, xvars>>

\* Mutant: the UPDATE to 'completed' does not wait for the last group.
WCompleteEarly ==
    /\ wPc = "groups"
    /\ jobs' = [jobs EXCEPT ![wJob].status = "completed"]
    /\ wPc' = "idle"
    /\ WReset
    /\ UNCHANGED <<chain, blocks, txs, queue, wErr, failedJobs,
                   ivars, rvars, evars, avars, fvars, xvars>>

\* UPDATE batch_jobs SET status = 'completed', after the last group.
WComplete ==
    /\ wPc = "groups"
    /\ DOMAIN wGroups = {}
    /\ jobs' = [jobs EXCEPT ![wJob].status = "completed"]
    /\ wPc' = "idle"
    /\ WReset
    /\ UNCHANGED <<chain, blocks, txs, queue, wErr, failedJobs,
                   ivars, rvars, evars, avars, fvars, xvars>>

\* An RPC, exchange, queue or store call fails: `?` returns the error from run.
WFail ==
    /\ wPc \in {"idle", "claimed", "resolve", "scan", "groups", "txs"}
    /\ WDie("upstream")
    /\ UNCHANGED <<chain, storevars, ivars, rvars, evars, avars, fvars, xvars>>

\* The process is started again: a new worker task with fresh locals.
WRestart ==
    /\ wPc = "dead"
    /\ wPc' = "idle"
    /\ wErr' = "none"
    /\ UNCHANGED <<chain, storevars, wJob, wGroups, wBlock, wTxsLeft, failedJobs,
                   ivars, rvars, evars, avars, fvars, xvars>>

\* ---------------------------------------------------- the real-time ingester

NoReceipt == [tx |-> NoTx, number |-> -1, rate |-> 0]

\* The ingester loop ends with an error; its locals are dropped.
IDie(err) ==
    /\ iPc' = "dead"
    /\ iErr' = err
    /\ iCur' = NoReceipt
    /\ seen_txs' = {}
    /\ seen_blocks' = <<>>

\* Mutant: every hash counts as new.
seen_txs_insert_always(seen, tx_hash) == [inserted |-> TRUE, set |-> seen \cup {tx_hash}]

\* seen_txs.insert(tx_hash): true exactly when the hash was not in the set.
seen_txs_insert(seen, tx_hash) == [inserted |-> tx_hash \notin seen, set |-> seen \cup {tx_hash}]

\* Mutant: the cache is never hit.
seen_blocks_contains_key_never(cache, block_hash) == FALSE

\* seen_blocks.contains_key(&block_hash)
seen_blocks_contains_key(cache, block_hash) == block_hash \in DOMAIN cache

\* stream.next() yields a log whose transaction is new: seen_txs.insert, then
\* the receipt (None: nothing more is done for the log), then the price of
\* the block: from seen_blocks, or from the oracle.
IRecv ==
    /\ iPc = "wait"
    /\ \E tx_hash \in {ChainLogs[i].tx : i \in DOMAIN ChainLogs} \ {NoTx} :
        /\ seen_txs_insert(seen_txs, tx_hash).inserted
        /\ seen_txs' = seen_txs_insert(seen_txs, tx_hash).set
        /\ \/ UNCHANGED <<iPc, iCur>>
           \/ LET block_hash == BlockHash(Receipt(tx_hash).block_number) IN
              IF ~seen_blocks_contains_key(seen_blocks, block_hash)
              THEN /\ iPc' = "store_block"
                   /\ \E price \in Rates :
                        iCur' = [tx |-> tx_hash, number |-> Receipt(tx_hash).block_number,
                                 rate |-> price]
              ELSE /\ iPc' = "store_tx"
                   /\ iCur' = [tx |-> tx_hash, number |-> Receipt(tx_hash).block_number,
                               rate |-> seen_blocks[block_hash]]
    /\ UNCHANGED <<chain, storevars, wvars, iErr, seen_blocks, rvars, evars, avars, fvars, xvars>>

\* stream.next() yields a log without a transaction hash, or one whose
\* transaction is in seen_txs: the log is skipped.
ISkip ==
    /\ iPc = "wait"
    /\ \E i \in DOMAIN ChainLogs :
          ChainLogs[i].tx = NoTx \/ ~seen_txs_insert(seen_txs, ChainLogs[i].tx).inserted
    /\ UNCHANGED vars

\* store_block for a block hash that is not in seen_blocks, then cache the price.
IStoreBlock ==
    /\ iPc = "store_block"
    /\ LET r == store_block(blocks, iCur.number, BlockHash(iCur.number), iCur.rate) IN
        IF r.ok
        THEN /\ blocks' = r.rows
             /\ seen_blocks' = (BlockHash(iCur.number) :> iCur.rate) @@ seen_blocks
             /\ iPc' = "store_tx"
             /\ UNCHANGED <<iErr, iCur, seen_txs>>
        ELSE /\ IDie("block_conflict")
             /\ UNCHANGED blocks
    /\ UNCHANGED <<chain, txs, jobs, queue, wvars, rvars, evars, avars, fvars, xvars>>

\* calculate_tx_fee_usdt and store_tx
IStoreTx ==
    /\ iPc = "store_tx"
    /\ LET fee_usdt == calculate_tx_fee_usdt(Receipt(iCur.tx).effective_gas_price,
                                             Receipt(iCur.tx).gas_used, iCur.rate)
           r == store_tx(txs, blocks, iCur.tx, BlockHash(iCur.number), fee_usdt)
       IN  IF r.ok
           THEN /\ txs' = r.rows
                /\ iPc' = "wait"
                /\ iCur' = NoReceipt
                /\ UNCHANGED <<iErr, seen_txs, seen_blocks>>
           ELSE /\ IDie("tx_conflict")
                /\ UNCHANGED txs
    /\ UNCHANGED <<chain, blocks, jobs, queue, wvars, rvars, evars, avars, fvars, xvars>>

\* An RPC, exchange or store call fails: `?` returns the error from run.
IFail ==
    /\ iPc \in {"wait", "store_block", "store_tx"}
    /\ IDie("upstream")
    /\ UNCHANGED <<chain, storevars, wvars, rvars, evars, avars, fvars, xvars>>

\* stream.next() yields None (the subscription was dropped): the while loop
\* ends and run returns Ok(()).
IStreamEnd ==
    /\ iPc = "wait"
    /\ iPc' = "ended"
    /\ seen_txs' = {}
    /\ seen_blocks' = <<>>
    /\ UNCHANGED <<chain, storevars, wvars, iErr, iCur, rvars, evars, avars, fvars, xvars>>

\* ------------------------------------------------------------ Spec: the system

SysChains ==
    {<<ChainT0, ChainT0 + g[1], ChainT0 + g[1] + g[2]>> : g \in SysGaps}

SInitVars ==
    /\ blocks = {}
    /\ txs = {}
    /\ jobs = <<>>
    /\ queue = <<>>
    /\ wPc = "idle"
    /\ wErr = "none"
    /\ wJob = 0
    /\ wGroups = <<>>
    /\ wBlock = [number |-> -1, rate |-> 0]
    /\ wTxsLeft = {}
    /\ failedJobs = {}
    /\ iPc = "wait"
    /\ iErr = "none"
    /\ seen_txs = {}
    /\ seen_blocks = <<>>
    /\ iCur = NoReceipt

RInitVars ==
    /\ rPc = "idle"
    /\ rTarget = 0
    /\ rEst = 0
    /\ rResult = -1
    /\ rReseeds = 0
    /\ rVisited = {}
    /\ rLookups = 0

EInitVars ==
    /\ ePc = "idle"
    /\ eRange = <<0, 0>>
    /\ eLeft = <<>>
    /\ eByBlock = <<>>
    /\ eFinal = <<>>

AInitVars ==
    /\ aReq = NoRequest
    /\ aResp = NoResponse

FInitVars ==
    /\ fPc = "idle"
    /\ fIn = [gas_price |-> <<0, 0>>, gas_used |-> 0, eth_usdt |-> <<0, 0>>]
    /\ fOut = [kind |-> "finite", m |-> <<>>, e |-> 0]

\* --------------------------------------------------------- the price oracle
\*
\* Text is a sequence of one-character strings.

Digits == <<"0", "1", "2", "3", "4", "5", "6", "7", "8", "9">>

IsDigit(c) == \E i \in DOMAIN Digits : Digits[i] = c

DigitVal(c) == (CHOOSE i \in DOMAIN Digits : Digits[i] = c) - 1

\* format!("{}", n) of an integer that is not negative
RECURSIVE DisplayFrom(_)
DisplayFrom(a) ==
    IF a = <<>> THEN <<>>
    ELSE LET d == BigDivMod(a, <<10>>)
         IN  DisplayFrom(d.q) \o <<Digits[BigToInt(d.r) + 1]>>

Display(a) == IF a = <<>> THEN <<"0">> ELSE DisplayFrom(a)

\* Option<i64>
NoTs == [some |-> FALSE, ts |-> 0]

SomeTs(ts) == [some |-> TRUE, ts |-> ts]

PAIR == "ETHUSDT"

\* Binance::url: the request as its path and its query parameters in order.
url(pair, timestamp) ==
    LET base == <<"https://api.binance.com/api/v3/klines",
                  <<"symbol", pair>>, <<"interval", "1s">>, <<"limit", "1">>>>
    IN  IF timestamp.some
        THEN base \o <<<<"startTime", Display(BigMul(BigFromInt(timestamp.ts), BigFromInt(1000)))>>>>
        ELSE base

NoUrl == <<>>

\* serde_json::Value: [type, s, items], s the text of a string or a number,
\* items the elements of an array.
JNull == [type |-> "null", s |-> <<>>, items |-> <<>>]

JObject == [type |-> "object", s |-> <<>>, items |-> <<>>]

JString(s) == [type |-> "string", s |-> s, items |-> <<>>]

JNumber(s) == [type |-> "number", s |-> s, items |-> <<>>]

JArray(items) == [type |-> "array", s |-> <<>>, items |-> items]

\* A body that is no JSON text.
NotJson == [type |-> "invalid", s |-> <<>>, items |-> <<>>]

\* Option<f64> and Result<f64>: [ok, error, neg, price], price an f64 and
\* neg its sign.
NoPrice == [ok |-> FALSE, error |-> "none", neg |-> FALSE, price |-> AsF64(<<>>)]

PriceErr(error) == [ok |-> FALSE, error |-> error, neg |-> FALSE, price |-> AsF64(<<>>)]

PriceOk(neg, price) == [ok |-> TRUE, error |-> "none", neg |-> neg, price |-> price]

UpperCase == <<"A", "B", "C", "D", "E", "F", "G", "H", "I", "J", "K", "L", "M",
               "N", "O", "P", "Q", "R", "S", "T", "U", "V", "W", "X", "Y", "Z">>

LowerCase == <<"a", "b", "c", "d", "e", "f", "g", "h", "i", "j", "k", "l", "m",
               "n", "o", "p", "q", "r", "s", "t", "u", "v", "w", "x", "y", "z">>

to_ascii_lowercase(s) ==
    [i \in DOMAIN s |->
        IF \E k \in DOMAIN UpperCase : UpperCase[k] = s[i]
        THEN LowerCase[CHOOSE k \in DOMAIN UpperCase : UpperCase[k] = s[i]]
        ELSE s[i]]

RECURSIVE BigOfDigits(_)
BigOfDigits(ds) ==
    IF ds = <<>> THEN <<>>
    ELSE BigAdd(BigMul(BigOfDigits(SubSeq(ds, 1, Len(ds) - 1)), <<10>>),
                BigFromInt(DigitVal(ds[Len(ds)])))

RECURSIVE IntOfDigits(_)
IntOfDigits(ds) ==
    IF ds = <<>> THEN 0
    ELSE 10 * IntOfDigits(SubSeq(ds, 1, Len(ds) - 1)) + DigitVal(ds[Len(ds)])

AllDigits(s) == \A i \in DOMAIN s : IsDigit(s[i])

\* The f64 nearest to n * 10^p.
F64OfDecimal(n, p) ==
    IF p >= 0 THEN AsF64(BigMul(n, BigPow10(p)))
    ELSE F64Div([kind |-> "finite", m |-> n, e |-> 0],
                [kind |-> "finite", m |-> BigPow10(-p), e |-> 0])

\* str::parse::<f64>: an optional sign, then inf, infinity or nan in any
\* case, or digits with at most one point and at least one digit, and an
\* optional exponent (e or E, an optional sign, digits); nothing else, and
\* no space around it.
parse_f64(s) ==
    LET signed == s # <<>> /\ s[1] \in {"+", "-"}
        neg == signed /\ s[1] = "-"
        body == IF signed THEN Tail(s) ELSE s
        low == to_ascii_lowercase(body)
        es == {i \in DOMAIN body : body[i] \in {"e", "E"}}
        epos == IF es = {} THEN Len(body) + 1 ELSE CHOOSE i \in es : \A k \in es : i <= k
        mant == SubSeq(body, 1, epos - 1)
        expo == SubSeq(body, epos + 1, Len(body))
        points == {i \in DOMAIN mant : mant[i] = "."}
        ppos == IF points = {} THEN Len(mant) + 1 ELSE CHOOSE i \in points : TRUE
        int == SubSeq(mant, 1, ppos - 1)
        frac == SubSeq(mant, ppos + 1, Len(mant))
        esigned == expo # <<>> /\ expo[1] \in {"+", "-"}
        edigits == IF esigned THEN Tail(expo) ELSE expo
        mant_ok == /\ Cardinality(points) <= 1
                   /\ AllDigits(int) /\ AllDigits(frac)
                   /\ Len(int) + Len(frac) >= 1
        expo_ok == es = {} \/ (edigits # <<>> /\ AllDigits(edigits))
        e10 == IF es = {} THEN 0
               ELSE IF esigned /\ expo[1] = "-" THEN -IntOfDigits(edigits)
               ELSE IntOfDigits(edigits)
    IN  IF low \in {<<"i", "n", "f">>, <<"i", "n", "f", "i", "n", "i", "t", "y">>}
        THEN PriceOk(neg, [kind |-> "inf", m |-> <<>>, e |-> 0])
        ELSE IF low = <<"n", "a", "n">>
        THEN PriceOk(neg, [kind |-> "nan", m |-> <<>>, e |-> 0])
        ELSE IF mant_ok /\ expo_ok
        THEN PriceOk(neg, F64OfDecimal(BigOfDigits(int \o frac), e10 - Len(frac)))
        ELSE NoPrice

\* Option::get(i) of an array, i from 0
JGet(items, i) == IF i < Len(items) THEN items[i + 1] ELSE NotJson

\* Mutant: the candle's open (index 1) is taken for its close.
extract_price_open(data) ==
    IF data.type # "array" THEN NoPrice
    ELSE IF data.items = <<>> THEN NoPrice
    ELSE IF data.items[1].type # "array" THEN NoPrice
    ELSE IF JGet(data.items[1].items, 1).type # "string" THEN NoPrice
    ELSE parse_f64(JGet(data.items[1].items, 1).s)

\* Binance::extract_price:
\* data.as_array()?.first()?.as_array()?.get(4)?.as_str()?.parse().ok()
extract_price(data) ==
    IF data.type # "array" THEN NoPrice
    ELSE IF data.items = <<>> THEN NoPrice
    ELSE IF data.items[1].type # "array" THEN NoPrice
    ELSE IF JGet(data.items[1].items, 4).type # "string" THEN NoPrice
    ELSE parse_f64(JGet(data.items[1].items, 4).s)

\* get_pair_price: the request sent and the result returned; transport is
\* what send() does and body what the server answers.
get_pair_price(pair, timestamp, transport, body) ==
    [url |-> url(pair, timestamp),
     result |->
        IF transport # "ok" THEN PriceErr("reqwest: send")
        ELSE IF body.type = "invalid" THEN PriceErr("reqwest: decode")
        ELSE LET price == extract_price(body)
             IN  IF price.ok THEN price
                 ELSE PriceErr("Failed to parse price from provider response")]

XInitVars ==
    /\ w2Pc = "idle"
    /\ w2Job = 0
    /\ w2Groups = <<>>
    /\ w2Block = [number |-> -1, rate |-> 0]
    /\ w2TxsLeft = {}
    /\ mainPc = "waiting"
    /\ apiPc = "running"
    /\ qReq = [tx_hash |-> <<>>, outcome |-> "ok"]
    /\ qResp = NoFeeResponse
    /\ sPc = "idle"
    /\ sIn = [avg_block_time |-> AVG_BLOCK_TIME, target_ts |-> 0, src_ts |-> 0, src_block_num |-> <<>>]
    /\ sOut = <<>>
    /\ pPc = "idle"
    /\ pIn = [ts |-> NoTs, transport |-> "ok", body |-> JNull]
    /\ pOut = [url |-> NoUrl, result |-> NoPrice]

Init ==
    /\ chain \in SysChains
    /\ SInitVars
    /\ RInitVars
    /\ EInitVars
    /\ AInitVars
    /\ FInitVars
    /\ XInitVars
    /\ eLogs = ChainLogs

Next ==
    \/ CreateJob
    \/ WTake
    \/ WSetProcessing
    \/ WResolve
    \/ WScan
    \/ WBlock
    \/ WTx
    \/ WComplete
    \/ WFail
    \/ WRestart
    \/ IRecv
    \/ ISkip
    \/ IStoreBlock
    \/ IStoreTx
    \/ IFail
    \/ IStreamEnd

Spec == Init /\ [][Next]_vars

\* -------------------------------------------------- SpecR: one resolver call

InitR ==
    /\ chain \in ResChains
    /\ SInitVars
    /\ RInitVars
    /\ EInitVars
    /\ AInitVars
    /\ FInitVars
    /\ XInitVars
    /\ eLogs = ChainLogs

RTargets(ch) == (ChainT0 - TargetMargin)..(BlockTs(ch, LatestNum(ch)) + TargetMargin)

\* find_closest_block, lines 43-58: fetch the latest block, seed the estimate.
RStart ==
    /\ rPc = "idle"
    /\ \E t \in RTargets(chain) :
        /\ rTarget' = t
        /\ rEst' = SeedEstimate(chain, t)
    /\ rPc' = "loop"
    /\ UNCHANGED <<chain, storevars, wvars, ivars, evars, avars, fvars, xvars, rResult, rReseeds, rVisited, rLookups>>

\* One iteration of the loop, lines 60-123.
RStep ==
    /\ rPc = "loop"
    /\ LET s == LoopStep(chain, rTarget, rEst) IN
        /\ rLookups' = s.lookups
        /\ rVisited' = rVisited \cup {rEst}
        /\ rEst' = s.est
        /\ rPc' = CASE s.kind = "ret" -> "done"
                    [] s.kind = "panic" -> "panic"
                    [] OTHER -> "loop"
        /\ rResult' = s.block
        /\ rReseeds' = IF s.kind = "reseed" /\ rReseeds < MaxReseeds
                       THEN rReseeds + 1 ELSE rReseeds
    /\ UNCHANGED <<chain, storevars, wvars, ivars, evars, avars, fvars, xvars, rTarget>>

\* A get_block call fails (the `?` of lines 45, 68, 83, 102): Err to the caller.
RRpcFail ==
    /\ rPc \in {"idle", "loop"}
    /\ rPc' = "err"
    /\ UNCHANGED <<chain, storevars, wvars, ivars, evars, avars, fvars, xvars, rTarget, rEst, rResult, rReseeds, rVisited,
                   rLookups>>

NextR == RStart \/ RStep \/ RRpcFail

SpecR == InitR /\ [][NextR]_vars

\* ------------------------------------------------ SpecE: one scanner call

\* The log of a transaction lies in the block that confirmed it; a log
\* without a transaction hash lies in block 1.
LogOf(tx) == [tx |-> tx, block |-> IF tx = NoTx THEN 1 ELSE Receipt(tx).block_number]

LogLists ==
    UNION {{[i \in 1..n |-> LogOf(f[i])] : f \in [1..n -> TxHashes \cup {NoTx}]} : n \in 0..MaxLogs}

InitE ==
    /\ chain \in SysChains
    /\ SInitVars
    /\ RInitVars
    /\ EInitVars
    /\ AInitVars
    /\ FInitVars
    /\ XInitVars
    /\ eLogs \in LogLists

\* get_events_range, lines 149-152: get_logs, then the set of hashes.
EStart ==
    /\ ePc = "idle"
    /\ \E from_block \in 0..LatestNum(chain), to_block \in 0..LatestNum(chain) :
        /\ eRange' = <<from_block, to_block>>
        /\ eLeft' = unique_txs(get_logs(eLogs, from_block, to_block))
    /\ ePc' = "run"
    /\ UNCHANGED <<chain, storevars, wvars, ivars, rvars, avars, fvars, xvars, eLogs, eByBlock, eFinal>>

\* Lines 155-166: the next hash of unique_txs (any order), its receipt, and
\* the push onto the Vec of its block.
EReceipt ==
    /\ ePc = "run"
    /\ \E tx_hash \in DOMAIN eLeft :
        LET block_num == Receipt(tx_hash).block_number
            old == IF block_num \in DOMAIN eByBlock THEN eByBlock[block_num] ELSE <<>>
        IN  /\ eByBlock' = (block_num :> Append(old, EventEntry(tx_hash))) @@ eByBlock
            /\ eLeft' = IF eLeft[tx_hash] = 1
                         THEN [t \in DOMAIN eLeft \ {tx_hash} |-> eLeft[t]]
                         ELSE [eLeft EXCEPT ![tx_hash] = @ - 1]
    /\ UNCHANGED <<chain, storevars, wvars, ivars, rvars, avars, fvars, xvars, ePc, eLogs, eRange, eFinal>>

\* Lines 168-175: the next entry of events_by_block (any order), get_block,
\* and the insert under (block_num, timestamp).
EBlock ==
    /\ ePc = "run"
    /\ DOMAIN eLeft = {}
    /\ \E block_num \in DOMAIN eByBlock :
        /\ eFinal' = (GroupKey(chain, block_num) :> eByBlock[block_num]) @@ eFinal
        /\ eByBlock' = [b \in DOMAIN eByBlock \ {block_num} |-> eByBlock[b]]
    /\ UNCHANGED <<chain, storevars, wvars, ivars, rvars, avars, fvars, xvars, ePc, eLogs, eRange, eLeft>>

\* Line 177: Ok(final_events)
EReturn ==
    /\ ePc = "run"
    /\ DOMAIN eLeft = {}
    /\ DOMAIN eByBlock = {}
    /\ ePc' = "done"
    /\ UNCHANGED <<chain, storevars, wvars, ivars, rvars, avars, fvars, xvars, eLogs, eRange, eLeft, eByBlock,
                   eFinal>>

\* An RPC call fails (the `?` of lines 149, 156, 172): Err to the caller.
EFail ==
    /\ ePc \in {"idle", "run"}
    /\ ePc' = "err"
    /\ UNCHANGED <<chain, storevars, wvars, ivars, rvars, avars, fvars, xvars, eLogs, eRange, eLeft, eByBlock,
                   eFinal>>

NextE == EStart \/ EReceipt \/ EBlock \/ EReturn \/ EFail

SpecE == InitE /\ [][NextE]_vars

\* ------------------------------------- SpecApi: the endpoints and the worker

\* The timestamps of submitted requests: around 2018-01-01, the latest block
\* of the regular chain, and around now.
ApiTimes == {DEFI_START - 1, DEFI_START, DEFI_START + 24, Now, Now + 1}

\* POST /v1/jobs with any body, and its response. The INSERT and the RPUSH
\* can only fail on a request that gets as far as making them.
ACreate ==
    /\ \E start_time \in ApiTimes, end_time \in ApiTimes :
       \E o \in IF is_valid_time_range(start_time, end_time)
                 THEN {"ok", "db_fail", "redis_fail"} ELSE {"ok"} :
        LET r == create_batch_job(jobs, queue, start_time, end_time, o) IN
        /\ Len(r.jobs) <= MaxJobs
        /\ jobs' = r.jobs
        /\ queue' = r.queue
        /\ aReq' = [op |-> "create", start_time |-> start_time, end_time |-> end_time,
                    job_id |-> Null, outcome |-> o]
        /\ aResp' = Response(r.status, r.job_id, "", Null, Null)
    /\ UNCHANGED <<chain, blocks, txs, wvars, ivars, rvars, evars, fvars, xvars>>

\* GET /v1/jobs/{job_id} for any id, and its response.
AStatus ==
    /\ \E job_id \in 1..(MaxJobs + 1), o \in {"ok", "db_fail"} :
        /\ aReq' = [op |-> "status", start_time |-> Null, end_time |-> Null,
                    job_id |-> job_id, outcome |-> o]
        /\ aResp' = get_job_status(jobs, job_id, o)
    /\ UNCHANGED <<chain, storevars, wvars, ivars, rvars, evars, fvars, xvars>>

NextApi ==
    \/ ACreate
    \/ AStatus
    \/ WTake
    \/ WSetProcessing
    \/ WResolve
    \/ WScan
    \/ WBlock
    \/ WTx
    \/ WComplete
    \/ WFail
    \/ WRestart

SpecApi == Init /\ [][NextApi]_vars

\* --------------------------------- SpecFees: fee lookups next to the ingester

\* 64 hexadecimal digits in both cases.
MixedHex == Rep("0", HASH_HEX_LEN - 6) \o <<"9", "a", "f", "A", "F", "c">>

\* text with the character at position i replaced by c
WithChar(text, i, c) == [text EXCEPT ![i] = c]

\* The hashes requested: those of the chain's transactions, other well-formed
\* ones, and malformed ones: a wrong length, a wrong or missing prefix, a
\* character next to a range of the class, text before or after a hash.
FeeRequests ==
    {HashText(t) : t \in TxHashes}
    \cup {WithChar(HashText("t1"), 2 + HASH_HEX_LEN, "A"), <<"0", "x">> \o MixedHex,
          <<"0", "x">> \o Rep("F", HASH_HEX_LEN)}
    \cup {<<>>, <<"0", "x">>, <<"0", "x", "1", "2", "3", "4", "5">>,
          <<"0", "x">> \o Rep("a", HASH_HEX_LEN - 1),
          <<"0", "x">> \o Rep("a", HASH_HEX_LEN + 1),
          Rep("a", 2 + HASH_HEX_LEN), Rep("a", HASH_HEX_LEN),
          <<"0", "X">> \o MixedHex, <<"1", "x">> \o MixedHex,
          <<" ">> \o HashText("t1"), HashText("t1") \o <<"\n">>,
          <<"0", "x">> \o HashText("t2")}
    \cup {WithChar(HashText("t1"), i, c) : i \in {3, 2 + HASH_HEX_LEN},
                                           c \in {"g", "G", "Q", "/", ":", "@", "_"}}

\* A request reaches the fee endpoint.
QFee ==
    /\ \E h \in FeeRequests, o \in {"ok", "db_fail"} :
        /\ o = "db_fail" => h \in {HashText("t1"), <<>>}
        /\ qReq' = [tx_hash |-> h, outcome |-> o]
        /\ qResp' = get_fee(txs, blocks, h, o)
    /\ UNCHANGED <<chain, storevars, wvars, ivars, rvars, evars, avars, fvars, cvars, w2vars, tvars>>

NextFees ==
    \/ QFee
    \/ IRecv
    \/ ISkip
    \/ IStoreBlock
    \/ IStoreTx
    \/ IFail
    \/ IStreamEnd

SpecFees == Init /\ [][NextFees]_vars

\* ----------------------- Spec2W: two instances of the batch worker, one queue

W2Reset ==
    /\ w2Job' = 0
    /\ w2Groups' = <<>>
    /\ w2Block' = [number |-> -1, rate |-> 0]
    /\ w2TxsLeft' = {}

\* The second worker's loop ends: Err returned, or the task panics.
W2Die ==
    /\ w2Pc' = "dead"
    /\ W2Reset

\* BRPOP, SELECT the job row, and the status guard, by the second worker.
W2Take ==
    /\ w2Pc = "idle"
    /\ queue # <<>>
    /\ LET job_id == queue[Len(queue)] IN
        /\ \/ queue' = SubSeq(queue, 1, Len(queue) - 1)
           \/ UNCHANGED queue
        /\ w2Job' = job_id
        /\ w2Pc' = IF IsPending(jobs[job_id]) THEN "claimed" ELSE "idle"
    /\ UNCHANGED <<chain, blocks, txs, jobs, w2Groups, w2Block, w2TxsLeft, wvars, ivars, rvars, evars, avars, fvars, cvars, tvars, qvars>>

\* UPDATE batch_jobs SET status = 'processing'
W2SetProcessing ==
    /\ w2Pc = "claimed"
    /\ jobs' = [jobs EXCEPT ![w2Job].status = "processing"]
    /\ w2Pc' = "resolve"
    /\ UNCHANGED <<chain, blocks, txs, queue, w2Job, w2Groups, w2Block, w2TxsLeft, wvars, ivars, rvars, evars, avars, fvars, cvars, tvars, qvars>>

\* find_closest_block twice, then UPDATE batch_jobs SET start_block, end_block.
W2Resolve ==
    /\ w2Pc = "resolve"
    /\ LET s == find_closest_block(chain, jobs[w2Job].start_time)
           e == find_closest_block(chain, jobs[w2Job].end_time)
       IN  IF s.kind = "ret" /\ e.kind = "ret"
           THEN /\ jobs' = [jobs EXCEPT ![w2Job].start_block = s.block,
                                        ![w2Job].end_block = e.block]
                /\ w2Pc' = "scan"
                /\ UNCHANGED <<w2Job, w2Groups, w2Block, w2TxsLeft>>
           ELSE IF s.kind = "hang" \/ (s.kind = "ret" /\ e.kind = "hang")
           THEN /\ w2Pc' = "hung"
                /\ UNCHANGED <<jobs, w2Job, w2Groups, w2Block, w2TxsLeft>>
           ELSE /\ W2Die
                /\ UNCHANGED jobs
    /\ UNCHANGED <<chain, blocks, txs, queue, wvars, ivars, rvars, evars, avars, fvars, cvars, tvars, qvars>>

\* get_events_range over [start_block, end_block]
W2Scan ==
    /\ w2Pc = "scan"
    /\ w2Groups' = get_events_range(chain, jobs[w2Job].start_block, jobs[w2Job].end_block)
    /\ w2Pc' = "groups"
    /\ UNCHANGED <<chain, storevars, w2Job, w2Block, w2TxsLeft, wvars, ivars, rvars, evars, avars, fvars, cvars, tvars, qvars>>

\* The next group: get_block, get_pair_price, the fees, store_block.
W2Block ==
    /\ w2Pc = "groups"
    /\ \E k \in DOMAIN w2Groups :
        LET eth_price == KlineCloseAt(BlockTs(chain, k[1]))
            r == store_block(blocks, k[1], BlockHash(k[1]), eth_price)
        IN
        IF r.ok
        THEN /\ blocks' = r.rows
             /\ w2Block' = [number |-> k[1], rate |-> eth_price]
             /\ w2TxsLeft' = w2Groups[k]
             /\ w2Groups' = [g \in DOMAIN w2Groups \ {k} |-> w2Groups[g]]
             /\ w2Pc' = "txs"
             /\ UNCHANGED w2Job
        ELSE /\ W2Die
             /\ UNCHANGED blocks
    /\ UNCHANGED <<chain, txs, jobs, queue, wvars, ivars, rvars, evars, avars, fvars, cvars, tvars, qvars>>

\* store_tx for the next entry of tx_fees; after the last one, the next group.
W2Tx ==
    /\ w2Pc = "txs"
    /\ \E t \in w2TxsLeft :
        LET fee_usdt == (Receipt(t).effective_gas_price * Receipt(t).gas_used) * w2Block.rate
            r == store_tx(txs, blocks, t, BlockHash(w2Block.number), fee_usdt)
        IN  IF r.ok
            THEN /\ txs' = r.rows
                 /\ w2TxsLeft' = w2TxsLeft \ {t}
                 /\ w2Pc' = IF w2TxsLeft = {t} THEN "groups" ELSE "txs"
                 /\ UNCHANGED <<w2Job, w2Groups, w2Block>>
            ELSE /\ W2Die
                 /\ UNCHANGED txs
    /\ UNCHANGED <<chain, blocks, jobs, queue, wvars, ivars, rvars, evars, avars, fvars, cvars, tvars, qvars>>

\* UPDATE batch_jobs SET status = 'completed', after the last group.
W2Complete ==
    /\ w2Pc = "groups"
    /\ DOMAIN w2Groups = {}
    /\ jobs' = [jobs EXCEPT ![w2Job].status = "completed"]
    /\ w2Pc' = "idle"
    /\ W2Reset
    /\ UNCHANGED <<chain, blocks, txs, queue, wvars, ivars, rvars, evars, avars, fvars, cvars, tvars, qvars>>

\* An RPC, exchange, queue or store call of the second worker fails.
W2Fail ==
    /\ w2Pc \in {"idle", "claimed", "resolve", "scan", "groups", "txs"}
    /\ W2Die
    /\ UNCHANGED <<chain, storevars, wvars, ivars, rvars, evars, avars, fvars, cvars, tvars, qvars>>

Next2W ==
    \/ CreateJob
    \/ WTake
    \/ WSetProcessing
    \/ WResolve
    \/ WScan
    \/ WBlock
    \/ WTx
    \/ WComplete
    \/ WFail
    \/ W2Take
    \/ W2SetProcessing
    \/ W2Resolve
    \/ W2Scan
    \/ W2Block
    \/ W2Tx
    \/ W2Complete
    \/ W2Fail

Spec2W == Init /\ [][Next2W]_vars

\* ------------------- SpecLive: the system with every service available, fair

\* A request reaches the submission endpoint, the store and the queue answering.
CreateJobOk ==
    /\ \E req \in ReqRanges :
        LET r == create_batch_job(jobs, queue, req[1], req[2], "ok") IN
        /\ Len(r.jobs) <= MaxJobs
        /\ jobs' = r.jobs
        /\ queue' = r.queue
    /\ UNCHANGED <<chain, blocks, txs, wvars, ivars, rvars, evars, avars, fvars, xvars>>

\* The steps of the worker task; WRestart is the supervisor's.
WorkerNext ==
    \/ WTake
    \/ WSetProcessing
    \/ WResolve
    \/ WScan
    \/ WBlock
    \/ WTx
    \/ WComplete
    \/ WRestart

\* The steps of the ingester task.
IngesterNext ==
    \/ IRecv
    \/ ISkip
    \/ IStoreBlock
    \/ IStoreTx

NextLive ==
    \/ CreateJobOk
    \/ WorkerNext
    \/ IngesterNext

\* No call fails; each task of the runtime is scheduled again and again.
SpecLive ==
    /\ Init
    /\ [][NextLive]_vars
    /\ WF_vars(WorkerNext)
    /\ WF_vars(IngesterNext)

\* ------------- SpecStore: every operation on the store, lookups included

\* GET /v1/jobs/{job_id} for the first job's id, the store answering.
SStatus ==
    /\ aReq' = [op |-> "status", start_time |-> Null, end_time |-> Null,
                job_id |-> 1, outcome |-> "ok"]
    /\ aResp' = get_job_status(jobs, 1, "ok")
    /\ UNCHANGED <<chain, storevars, wvars, ivars, rvars, evars, fvars, xvars>>

\* GET /v1/fees/{tx_hash} for the hash of a transaction of the chain.
SFee ==
    /\ qReq' = [tx_hash |-> HashText("t1"), outcome |-> "ok"]
    /\ qResp' = get_fee(txs, blocks, HashText("t1"), "ok")
    /\ UNCHANGED <<chain, storevars, wvars, ivars, rvars, evars, avars, fvars, cvars, w2vars, tvars>>

NextStore ==
    \/ Next
    \/ SStatus
    \/ SFee

SpecStore == Init /\ [][NextStore]_vars

\* ----------------------- SpecQ: several jobs submitted to one worker

\* A request with a valid range reaches the submission endpoint, the store
\* and the queue answering.
SubmitJob ==
    /\ \E req \in ReqRanges :
        LET r == create_batch_job(jobs, queue, req[1], req[2], "ok") IN
        /\ r.status = 201
        /\ Len(r.jobs) <= MaxWaiting
        /\ jobs' = r.jobs
        /\ queue' = r.queue
    /\ UNCHANGED <<chain, blocks, txs, wvars, ivars, rvars, evars, avars, fvars, xvars>>

NextQ ==
    \/ SubmitJob
    \/ WTake
    \/ WSetProcessing
    \/ WResolve
    \/ WScan
    \/ WBlock
    \/ WTx
    \/ WComplete

SpecQ == Init /\ [][NextQ]_vars

\* ------------------------------------- SpecMain: main and its three tasks

\* The runtime of main is alive: its spawned tasks run.
TasksRun == mainPc = "waiting"

\* The task's future has completed: run returned (Ok or Err) or panicked.
WorkerEnded == wPc = "dead"

IngesterEnded == iPc \in {"dead", "ended"}

ApiEnded == apiPc = "dead"

\* run_until_stopped returns an error: the API server task ends.
ApiFail ==
    /\ TasksRun
    /\ apiPc = "running"
    /\ apiPc' = "dead"
    /\ UNCHANGED <<chain, storevars, wvars, ivars, rvars, evars, avars, fvars, cvars, w2vars, mainPc, qvars>>

\* select_all(tasks).await resolves with the first task that has ended and
\* main returns Ok(()): the runtime is dropped and with it every task still
\* running.
MainReturn ==
    /\ TasksRun
    /\ WorkerEnded \/ IngesterEnded \/ ApiEnded
    /\ mainPc' = "returned"
    /\ wPc' = IF WorkerEnded THEN wPc ELSE "cancelled"
    /\ iPc' = IF IngesterEnded THEN iPc ELSE "cancelled"
    /\ apiPc' = IF ApiEnded THEN apiPc ELSE "cancelled"
    /\ UNCHANGED <<chain, storevars, wErr, wJob, wGroups, wBlock, wTxsLeft, failedJobs,
                   iErr, seen_txs, seen_blocks, iCur, rvars, evars, avars, fvars, cvars, w2vars, qvars>>

NextMain ==
    \/ TasksRun /\ apiPc = "running" /\ CreateJob
    \/ TasksRun /\ WTake
    \/ TasksRun /\ WSetProcessing
    \/ TasksRun /\ WResolve
    \/ TasksRun /\ WScan
    \/ TasksRun /\ WBlock
    \/ TasksRun /\ WTx
    \/ TasksRun /\ WComplete
    \/ TasksRun /\ WFail
    \/ TasksRun /\ IRecv
    \/ TasksRun /\ ISkip
    \/ TasksRun /\ IStoreBlock
    \/ TasksRun /\ IStoreTx
    \/ TasksRun /\ IFail
    \/ TasksRun /\ IStreamEnd
    \/ ApiFail
    \/ MainReturn

SpecMain == Init /\ [][NextMain]_vars

\* ----------------------------------------------- SpecF: one fee computation

\* Gas prices in wei, up to 10^12, as <<c, p>> for c * 10^p.
FGasPrices ==
    { <<0, 0>>, <<1, 0>>, <<7, 0>>, <<1, 9>>, <<30, 9>>, <<50, 9>>, <<100, 9>>, <<200, 9>>,
      <<123456789, 3>>, <<999999999, 3>>, <<1, 12>> }

\* Gas used, up to 10^8.
FGasUsed == {1, 21000, 100000, 300000, 99999999, 100000000}

\* ETH/USDT rates as <<m, e>> for the f64 m * 2^e: 0.5, 1800, 2000, 2500,
\* 2500.25, 3000 and 100000.
FRates == { <<1, -1>>, <<1800, 0>>, <<2000, 0>>, <<2500, 0>>, <<10001, -2>>, <<3000, 0>>,
            <<100000, 0>> }

\* The integer c * 10^p
BigOfDec(d) == BigMul(BigFromInt(d[1]), BigPow10(d[2]))

\* The f64 m * 2^e
F64Of(r) == RoundF64(BigFromInt(r[1]), r[2])

\* A call of calculate_tx_fee_usdt.
FCall ==
    /\ fPc = "idle"
    /\ \E gas_price \in FGasPrices, gas_used \in FGasUsed, eth_usdt \in FRates :
        /\ fIn' = [gas_price |-> gas_price, gas_used |-> gas_used, eth_usdt |-> eth_usdt]
        /\ fOut' = calculate_tx_fee_usdt_f64(BigOfDec(gas_price), BigFromInt(gas_used),
                                             F64Of(eth_usdt))
    /\ fPc' = "done"
    /\ UNCHANGED <<chain, storevars, wvars, ivars, rvars, evars, avars, xvars>>

\* The worker's fee of one transaction of a group.
FBatch ==
    /\ fPc = "idle"
    /\ \E gas_price \in FGasPrices, gas_used \in FGasUsed, eth_usdt \in FRates :
        /\ fIn' = [gas_price |-> gas_price, gas_used |-> gas_used, eth_usdt |-> eth_usdt]
        /\ fOut' = batch_fee_usdt(BigOfDec(gas_price), BigFromInt(gas_used), F64Of(eth_usdt))
    /\ fPc' = "batch"
    /\ UNCHANGED <<chain, storevars, wvars, ivars, rvars, evars, avars, xvars>>

NextF == FCall \/ FBatch

SpecF == Init /\ [][NextF]_vars

\* ------------------------------------ one call of avg_ts_to_block_number

\* The source block of test_avg_closest_block.
STestBlock == 17000000

STestTs == 1697890000

\* avg_block_time: i8, positive.
SAvgBlockTimes == {1, AVG_BLOCK_TIME, 127}

\* src_ts - target_ts: zero, below, at and above one and two block times on
\* both sides, and the five minutes and the hour of the tests.
SDiffs == {-3600, -300, -25, -24, -13, -12, -11, -1, 0, 1, 5, 11, 12, 13, 24, 25, 300, 3600}

\* src_block_num: u64, from 0 to u64::MAX.
SBlocks ==
    {<<>>, <<1>>, <<2>>, BigFromInt(300), BigFromInt(STestBlock),
     BigSub(U64_MAX, BigFromInt(300)), BigSub(U64_MAX, <<1>>), U64_MAX}

SCall ==
    /\ sPc = "idle"
    /\ \E avg_block_time \in SAvgBlockTimes, diff \in SDiffs, src_block_num \in SBlocks :
        /\ sIn' = [avg_block_time |-> avg_block_time, target_ts |-> STestTs - diff,
                   src_ts |-> STestTs, src_block_num |-> src_block_num]
        /\ sOut' = avg_ts_to_block_number_u64(avg_block_time, STestTs - diff, STestTs,
                                              src_block_num)
    /\ sPc' = "done"
    /\ UNCHANGED <<chain, storevars, wvars, ivars, rvars, evars, avars, fvars, w2vars, tvars,
                   qvars, pvars>>

NextS == SCall

SpecS == Init /\ [][NextS]_vars

\* ---------------------------------------------- one call of get_pair_price

\* The timestamps of test_binance_get_pair_price, the start of the valid
\* range and the epoch.
PTimestamps == {NoTs, SomeTs(0), SomeTs(DEFI_START), SomeTs(1706826922), SomeTs(1726526911)}

PClose1 == <<"2", "2", "9", "7", ".", "1", "2", "0", "0", "0", "0", "0", "0">>

PClose2 == <<"2", "2", "8", "2", ".", "7", "3", "0", "0", "0", "0", "0", "0">>

POpen == <<"2", "2", "9", "0", ".", "0", "0">>

POpenTime == <<"1", "7", "0", "6", "8", "2", "6", "9", "2", "2", "0", "0", "0">>

\* A candle as far as its volume: open time, open, high, low, close, volume.
Candle(close) ==
    JArray(<<JNumber(POpenTime), JString(POpen), JString(PClose1), JString(POpen),
             close, JString(<<"1", ".", "5">>)>>)

\* Texts at index 4 that parse::<f64>() accepts
PNumberTexts ==
    {PClose1, PClose2, <<"2", "0", "0", "0">>, <<"+", "2", "0", "0", "0">>,
     <<"-", "1", ".", "5">>, <<"1", "e", "3">>, <<"2", "5", "E", "-", "2">>,
     <<".", "5">>, <<"5", ".">>, <<"0">>, <<"i", "n", "f">>, <<"N", "a", "N">>}

\* and texts it rejects.
PNoNumberTexts ==
    {<<>>, <<"a", "b", "c">>, <<"1", ",", "5">>, <<" ", "2", "0", "0", "0">>,
     <<"2", "0", "0", "0", " ">>, <<"0", "x", "1", "0">>, <<"+">>, <<".">>,
     <<"1", "e">>, <<"e", "3">>, <<"1", ".", "2", ".", "3">>, <<"2", "_", "0">>}

PBodies ==
    {NotJson, JNull, JObject, JString(PClose1), JNumber(PClose1),
     JArray(<<>>),
     JArray(<<JNull>>), JArray(<<JObject>>), JArray(<<JString(PClose1)>>),
     JArray(<<JArray(<<>>)>>),
     JArray(<<JArray(<<JNumber(POpenTime), JString(POpen), JString(PClose1), JString(POpen)>>)>>),
     JArray(<<Candle(JNumber(PClose1))>>), JArray(<<Candle(JNull)>>),
     JArray(<<Candle(JString(PClose1)), Candle(JString(PClose2))>>),
     JArray(<<Candle(JString(PClose2)), Candle(JString(<<"a", "b", "c">>))>>),
     JArray(<<Candle(JString(<<"a", "b", "c">>)), Candle(JString(PClose2))>>)}
    \cup {JArray(<<Candle(JString(t))>>) : t \in PNumberTexts \cup PNoNumberTexts}

PCall ==
    /\ pPc = "idle"
    /\ \E timestamp \in PTimestamps, transport \in {"ok", "failed"}, body \in PBodies :
        /\ transport = "failed" => body = NotJson
        /\ pIn' = [ts |-> timestamp, transport |-> transport, body |-> body]
        /\ pOut' = get_pair_price(PAIR, timestamp, transport, body)
    /\ pPc' = "done"
    /\ UNCHANGED <<chain, storevars, wvars, ivars, rvars, evars, avars, fvars, w2vars, tvars,
                   qvars, svars>>

NextP == PCall

SpecP == Init /\ [][NextP]_vars

\* ------------------------------------------------------------------- claims

StatusRank(s) == CASE s = "pending" -> 0 [] s = "processing" -> 1 [] OTHER -> 2

\* The step is one of the worker's.
WorkerMoves == wvars' # wvars \/ Len(queue') < Len(queue)

\* C1: a job id delivered to the worker when its job is already processing
\* or completed is ignored: the worker stays in its loop start (or ends on a
\* failed call), it starts no resolver, scanner or oracle call, writes no
\* Block or FeeRecord row and leaves the job row as it is.
C1_JobIdempotency ==
    [][\A j \in DOMAIN jobs :
          ( /\ wPc = "idle"
            /\ queue # <<>>
            /\ queue[Len(queue)] = j
            /\ jobs[j].status \in {"processing", "completed"}
            /\ WorkerMoves )
          => ( /\ wPc' \in {"idle", "dead"}
               /\ wGroups' = <<>>
               /\ wTxsLeft' = {}
               /\ UNCHANGED <<jobs, blocks, txs>> )]_vars

\* C1 witness: the worker has ignored a delivery of a completed job whose
\* rows are in the store.
C1_Witness ==
    /\ wPc = "idle"
    /\ wJob \in DOMAIN jobs
    /\ jobs[wJob].status = "completed"
    /\ txs # {}

\* C2: in every step every job row stays, and its status keeps its rank or
\* moves one rank up (pending -> processing -> completed).
C2_StatusMonotonic ==
    [][\A j \in DOMAIN jobs :
          /\ j \in DOMAIN jobs'
          /\ StatusRank(jobs'[j].status) - StatusRank(jobs[j].status) \in {0, 1}]_vars

\* C2 witness: a job has gone all the way to completed and was delivered again.
C2_Witness ==
    \E j \in DOMAIN jobs :
        jobs[j].status = "completed" /\ wPc = "idle" /\ wJob = j /\ queue # <<>>

\* C3: no caller of store_block is answered with an error because the
\* block's row is already there.
C3_BlockRaceNoError == wErr # "block_conflict" /\ iErr # "block_conflict"

\* C4: a job whose processing failed after it was set to processing is in
\* status processing, in the failing state and in every later one.
C4_FailedStaysProcessing ==
    \A j \in failedJobs : j \in DOMAIN jobs /\ jobs[j].status = "processing"

\* C4 witness: after such a failure the worker was started again, the job's
\* id was delivered again and the delivery was ignored.
C4_Witness ==
    /\ wPc = "idle"
    /\ wJob \in failedJobs
    /\ wErr = "none"

\* C5: the store holds at most one Block row per block hash and at most one
\* FeeRecord row per transaction hash.
C5_Uniqueness ==
    /\ \A r1 \in blocks, r2 \in blocks : r1.hash = r2.hash => r1 = r2
    /\ \A r1 \in txs, r2 \in txs : r1.hash = r2.hash => r1 = r2

\* C5 witness: ingester and worker have both tried to insert one block, and
\* rows of both tables are in the store.
C5_Witness ==
    /\ wErr = "block_conflict" \/ iErr = "block_conflict"
    /\ blocks # {}
    /\ txs # {}

\* C6: every FeeRecord row's block_hash is the hash of a Block row, and when
\* the ingester or the worker is about to write a fee row the block's row is
\* already in the store.
C6_Referential ==
    /\ \A t \in txs : HasRow(blocks, t.block_hash)
    /\ wPc = "txs" => HasRow(blocks, BlockHash(wBlock.number))
    /\ iPc = "store_tx" => HasRow(blocks, BlockHash(iCur.number))

\* C6 witness: a worker that wrote a block's row failed before the block's
\* fee rows were all written, while the ingester has written fee rows.
C6_Witness ==
    /\ wPc = "dead"
    /\ \E b \in blocks : \A t \in txs : t.block_hash # b.hash
    /\ txs # {}

\* The chain's timestamps strictly increase with the block number.
StrictlyIncreasing(ch) == \A n \in 1..LatestNum(ch) : BlockTs(ch, n - 1) < BlockTs(ch, n)

\* C10: a job with start_time < end_time whose bounds are persisted has
\* start_block <= end_block.
C10_BoundsOrdered ==
    \A j \in DOMAIN jobs :
        ( /\ StrictlyIncreasing(chain)
          /\ jobs[j].start_time < jobs[j].end_time
          /\ jobs[j].start_block # Null )
        => jobs[j].start_block <= jobs[j].end_block

\* The target lies between the first and the latest block's timestamps.
TargetInChain == rTarget >= BlockTs(chain, 0) /\ rTarget <= BlockTs(chain, LatestNum(chain))

\* The target is exactly halfway between blocks p and p + 1.
Halfway(p) ==
    /\ BlockExists(chain, p + 1)
    /\ rTarget - BlockTs(chain, p) = BlockTs(chain, p + 1) - rTarget

\* C7: for a target exactly halfway between two adjacent blocks the resolver
\* returns the later of the two.
C7_TieBreakLater ==
    \A p \in 0..LatestNum(chain) : (rPc = "done" /\ Halfway(p)) => rResult = p + 1

\* C8: for a target between the first and the latest block's timestamps the
\* returned block has the least distance to the target among all blocks.
C8_Nearest ==
    (rPc = "done" /\ TargetInChain)
    => \A n \in 0..LatestNum(chain) :
          Abs(BlockTs(chain, rResult) - rTarget) <= Abs(BlockTs(chain, n) - rTarget)

\* Block n has timestamp T0 + n * A.
Regular(ch) == \A n \in 0..LatestNum(ch) : BlockTs(ch, n) = ChainT0 + n * AVG_BLOCK_TIME

\* C9: on a chain with timestamps T0 + n * A a call for the timestamp of
\* block k does not fail on a missing block, returns in its first iteration,
\* returns k, and has re-seeded at most once.
C9_Exactness ==
    \A k \in 0..LatestNum(chain) :
        (Regular(chain) /\ rTarget = BlockTs(chain, k) /\ rPc \in {"loop", "done", "panic"})
        => /\ rPc # "panic"
           /\ rPc = "loop" => rVisited = {}
           /\ rPc = "done" => (rResult = k /\ rReseeds <= 1)

\* C9 witness: the call has returned the latest block of a regular chain for
\* that block's timestamp.
C9_Witness ==
    /\ Regular(chain)
    /\ Len(chain) >= 3
    /\ rPc = "done"
    /\ rTarget = BlockTs(chain, LatestNum(chain))
    /\ rResult = LatestNum(chain)

\* The logs get_logs returned to the scanner call.
ScannedLogs == get_logs(eLogs, eRange[1], eRange[2])

\* The distinct transaction hashes of those logs.
ScannedTxs == {ScannedLogs[i].tx : i \in DOMAIN ScannedLogs} \ {NoTx}

\* The positions of the transaction lists of the result: <<key, index>>.
ResultEntries == UNION {{<<k, i>> : i \in DOMAIN eFinal[k]} : k \in DOMAIN eFinal}

\* C11: the transaction lists of the result of get_events_range together
\* hold exactly one entry per distinct transaction hash of the logs (m entries
\* for m hashes), none repeated within or across groups, and no entry for a
\* log without a transaction hash.
C11_DedupInvariant ==
    ePc = "done" =>
        /\ Cardinality(ResultEntries) = Cardinality(ScannedTxs)
        /\ \A t \in ScannedTxs :
              Cardinality({e \in ResultEntries : eFinal[e[1]][e[2]][1] = t}) = 1
        /\ \A e \in ResultEntries : eFinal[e[1]][e[2]][1] # NoTx

\* C11 witness: the call has returned for a list of three logs, two of one
\* transaction and one without a transaction hash.
C11_Witness ==
    /\ ePc = "done"
    /\ Len(ScannedLogs) = 3
    /\ Cardinality(ScannedTxs) = 1
    /\ \E i \in DOMAIN ScannedLogs : ScannedLogs[i].tx = NoTx

\* C12: in the result of get_events_range every transaction is listed under
\* the block number of its receipt, every key's timestamp is the timestamp of
\* the key's block, there is exactly one key per distinct confirming block,
\* and every key's block number lies within [fromBlock, toBlock].
C12_ScannerGrouping ==
    ePc = "done" =>
        /\ \A e \in ResultEntries :
              Receipt(eFinal[e[1]][e[2]][1]).block_number = e[1][1]
        /\ \A k \in DOMAIN eFinal :
              /\ k[2] = BlockTs(chain, k[1])
              /\ k[1] >= eRange[1] /\ k[1] <= eRange[2]
              /\ \E t \in ScannedTxs : Receipt(t).block_number = k[1]
        /\ \A t \in ScannedTxs :
              Cardinality({k \in DOMAIN eFinal : k[1] = Receipt(t).block_number}) = 1

\* C12 witness: the call has returned two groups, one of them with two
\* transactions.
C12_Witness ==
    /\ ePc = "done"
    /\ Cardinality(DOMAIN eFinal) = 2
    /\ \E k \in DOMAIN eFinal : Len(eFinal[k]) = 2

\* C14: within one run of the ingester a receipt is fetched, and a fee row
\* written, only for a log whose transaction hash is not in the seen set, and
\* the hash is in the set from then on: a log whose hash is in the set is
\* skipped. While the run lasts the seen set only grows.
C14_RealtimeDedup ==
    /\ [](iPc \in {"store_block", "store_tx"} => iCur.tx \in seen_txs)
    /\ [][ /\ (iCur' # iCur /\ iCur'.tx # NoTx)
               => (iCur'.tx \notin seen_txs /\ iCur'.tx \in seen_txs')
           /\ (iPc = "store_tx" /\ iPc' = "wait")
               => (txs' = txs \cup {r \in txs' : r.hash = iCur.tx} /\ iCur.tx \in seen_txs')
           /\ (iPc' \notin {"dead", "ended"}) => seen_txs \subseteq seen_txs' ]_vars

\* C14 witness: the ingester has written the fee row of t1, whose second log
\* is then skipped, and has gone on to another transaction.
C14_Witness ==
    /\ iPc = "store_tx"
    /\ iCur.tx = "t2"
    /\ "t1" \in seen_txs
    /\ \E r \in txs : r.hash = "t1"

\* The fee of a fee row at the rate of a block row.
FeeAtRate(tx_hash, eth_usdt) ==
    calculate_tx_fee_usdt(Receipt(tx_hash).effective_gas_price, Receipt(tx_hash).gas_used,
                          eth_usdt)

\* C15: within one run of the ingester the oracle is asked and the block row
\* written only for a block hash that is not in the cache; a transaction of
\* a cached block takes the cached rate; the cached rate is the rate of the
\* block's row, and every fee row is computed with the rate of its block's row.
C15_PerBlockRate ==
    /\ [](/\ \A h \in DOMAIN seen_blocks :
                \E b \in blocks : b.hash = h /\ b.eth_usdt = seen_blocks[h]
          /\ iPc = "store_tx" =>
                /\ BlockHash(iCur.number) \in DOMAIN seen_blocks
                /\ iCur.rate = seen_blocks[BlockHash(iCur.number)]
          /\ \A t \in txs :
                \E b \in blocks : /\ b.hash = t.block_hash
                                   /\ t.fee_usdt = FeeAtRate(t.hash, b.eth_usdt))
    /\ [][ /\ (iPc = "wait" /\ iPc' = "store_block")
               => BlockHash(iCur'.number) \notin DOMAIN seen_blocks
           /\ (iPc = "wait" /\ iPc' = "store_tx")
               => /\ BlockHash(iCur'.number) \in DOMAIN seen_blocks
                  /\ iCur'.rate = seen_blocks[BlockHash(iCur'.number)]
           /\ (blocks' # blocks /\ ivars' # ivars)
               => (iPc = "store_block" /\ BlockHash(iCur.number) \notin DOMAIN seen_blocks) ]_vars

\* C15 witness: the ingester has written two fee rows of one block, the
\* second one at the cached rate.
C15_Witness ==
    /\ iPc = "wait"
    /\ \E h \in DOMAIN seen_blocks :
          Cardinality({t \in txs : t.block_hash = h}) = 2

\* C16: the ingester's loop never ends reporting success.
C16_NeverEndsOk == iPc # "ended"

\* C17: find_closest_block never aborts the task on a block that does not
\* exist; it returns an error value.
C17_ResolverErrors == rPc # "panic"

\* The step is a request to create_batch_job and its response.
CreateStep ==
    /\ aReq'.op = "create"
    /\ ~WorkerMoves
    /\ <<aReq', aResp', jobs'>> # <<aReq, aResp, jobs>>

\* The step is a request to get_job_status and its response.
StatusStep == aReq'.op = "status" /\ <<aReq', aResp'>> # <<aReq, aResp>>

\* C18: for a valid time range, the store and the queue accepting the
\* writes, create_batch_job appends exactly one row, with status pending and
\* the given start_time and end_time, pushes that row's id onto the queue and
\* answers 201 with the id; for an invalid time range it answers 400 and
\* leaves the store and the queue as they are.
C18_JobSubmission ==
    [][CreateStep =>
        IF is_valid_time_range(aReq'.start_time, aReq'.end_time)
        THEN aReq'.outcome = "ok" =>
                /\ Len(jobs') = Len(jobs) + 1
                /\ SubSeq(jobs', 1, Len(jobs)) = jobs
                /\ jobs'[Len(jobs')] = [start_time |-> aReq'.start_time,
                                        end_time |-> aReq'.end_time,
                                        start_block |-> Null, end_block |-> Null,
                                        status |-> "pending"]
                /\ queue' = Append(queue, Len(jobs'))
                /\ aResp'.status = 201
                /\ aResp'.job_id = Len(jobs')
                /\ UNCHANGED <<blocks, txs>>
        ELSE /\ aResp'.status = 400
             /\ UNCHANGED <<jobs, queue, blocks, txs>>]_vars

\* C18 witness: a valid request was answered with 201 and the id of the new
\* row, which is pending and on the queue.
C18_Witness ==
    /\ aReq.op = "create"
    /\ aResp.status = 201
    /\ aResp.job_id \in DOMAIN jobs
    /\ jobs[aResp.job_id].status = "pending"
    /\ queue = <<aResp.job_id>>

\* C19: a time range is accepted exactly when start >= 1514764800, end <= now
\* and start < end: a request is answered 400 exactly when it has a start
\* before 2018-01-01, an end in the future, or an end not after the start.
C19_TimeRangeValidation ==
    aReq.op = "create" =>
        /\ is_valid_time_range(aReq.start_time, aReq.end_time)
             = (aReq.start_time >= 1514764800 /\ aReq.end_time <= Now
                /\ aReq.start_time < aReq.end_time)
        /\ (aResp.status = 400)
             = (aReq.start_time < 1514764800 \/ aReq.end_time > Now
                \/ aReq.start_time >= aReq.end_time)

\* C19 witness: the range from 2018-01-01 to now was accepted.
C19_Witness ==
    /\ aReq.op = "create"
    /\ aReq.start_time = 1514764800
    /\ aReq.end_time = Now
    /\ aResp.status = 201

\* C20: for an id that has a row, the SELECT succeeding, get_job_status
\* answers 200 with the row's id, start_time, end_time and its status,
\* whichever status the job is in; for an id without a row it answers 404.
C20_JobStatusLookup ==
    [][(StatusStep /\ aReq'.outcome = "ok") =>
        IF aReq'.job_id \in DOMAIN jobs
        THEN /\ aResp'.status = 200
             /\ aResp'.job_id = aReq'.job_id
             /\ aResp'.job_status = jobs[aReq'.job_id].status
             /\ aResp'.start_time = jobs[aReq'.job_id].start_time
             /\ aResp'.end_time = jobs[aReq'.job_id].end_time
        ELSE aResp'.status = 404]_vars

Min(a, b) == IF a <= b THEN a ELSE b

\* |x - n / d| <= 1 / t, for the finite f64 x = m * 2^e and the exact rational
\* n * 2^ne / d (n, d, t natural numbers), by whole numbers: with
\* s = min(e, ne, 0), |m * 2^(e-s) * d - n * 2^(ne-s)| * t <= d * 2^(-s).
F64Within(x, n, ne, d, t) ==
    LET s == Min(Min(x.e, ne), 0)
        lhs == BigAbsDiff(BigMul(BigMul(x.m, BigPow2(x.e - s)), d),
                          BigMul(n, BigPow2(ne - s)))
    IN  BigCmp(BigMul(lhs, t), BigMul(d, BigPow2(0 - s))) <= 0

\* gas_price * gas_used * rate of the call, as n * 2^ne.
FExactN == BigMul(BigMul(BigOfDec(fIn.gas_price), BigFromInt(fIn.gas_used)),
                  BigFromInt(fIn.eth_usdt[1]))

\* The f64 literal 1e-18 of the model is the f64 nearest to 10^-18:
\* |m * 2^-112 - 10^-18| is at most half a unit of the last place, 2^-113.
F64_1e_18_IsNearest ==
    /\ BigBitLen(F64_1e_18.m) = F64_MANTISSA_DIGITS
    /\ BigCmp(BigMul(BigAbsDiff(BigMul(F64_1e_18.m, BigPow10(18)), BigPow2(112)), <<2>>),
              BigPow10(18)) <= 0

\* C13: for gas prices up to 10^12 wei, gas used up to 10^8 and rates up to
\* 10^5, calculate_tx_fee_usdt returns a finite f64 (no overflow) within
\* 10^-3 of gas_price * gas_used * rate / 10^18; the fee of (50000000000,
\* 21000, 2500) is within 10^-3 of 2.625, and the fee of (1000000000, 21000,
\* 2000) within 10^-3 of 0.042.
C13_FeeComputation ==
    fPc = "done" =>
        /\ F64_1e_18_IsNearest
        /\ fOut.kind = "finite"
        /\ F64Within(fOut, FExactN, fIn.eth_usdt[2], BigPow10(18), BigPow10(3))
        /\ fIn = [gas_price |-> <<50, 9>>, gas_used |-> 21000, eth_usdt |-> <<2500, 0>>]
             => F64Within(fOut, BigFromInt(2625), 0, BigPow10(3), BigPow10(3))
        /\ fIn = [gas_price |-> <<1, 9>>, gas_used |-> 21000, eth_usdt |-> <<2000, 0>>]
             => F64Within(fOut, BigFromInt(42), 0, BigPow10(3), BigPow10(3))

\* C13 witness: the fee of (50000000000, 21000, 2500) is the f64
\* 5910974510923777 * 2^-51 = 2.6250000000000004
\* (5910974510923777 = 5505024 * 2^30 + 1).
C13_Witness ==
    /\ fPc = "done"
    /\ fIn = [gas_price |-> <<50, 9>>, gas_used |-> 21000, eth_usdt |-> <<2500, 0>>]
    /\ fOut = [kind |-> "finite",
               m |-> BigAdd(BigMul(BigFromInt(5505024), BigPow2(30)), <<1>>),
               e |-> -51]

\* C22: on a chain whose timestamps strictly increase, for a target between
\* the first and the latest block's timestamps, the loop of
\* find_closest_block never comes back to an estimate it has already visited.
C22_ResolverTermination ==
    (rPc = "loop" /\ StrictlyIncreasing(chain) /\ TargetInChain) => rEst \notin rVisited

\* C23: for a target from the first block's timestamp up to the latest
\* block's timestamp find_closest_block does not abort on a missing block.
C23_TotalBelowHead == TargetInChain => rPc # "panic"

\* The chain as it was when block h was the latest block.
ChainAtHead(h) == SubSeq(chain, 1, h + 1)

\* C24: the block find_closest_block returns for a target is the block it
\* returns for the same target on the same chain at every other head at or
\* after the target.
C24_ResolverDeterminism ==
    rPc = "done" =>
        \A h \in 1..LatestNum(chain) :
            (BlockTs(chain, h) >= rTarget
             /\ find_closest_block(ChainAtHead(h), rTarget).kind = "ret")
            => find_closest_block(ChainAtHead(h), rTarget).block = rResult

\* The job's bounds are both null.
BoundsNull(job) == job.start_block = Null /\ job.end_block = Null

\* The job's bounds are the blocks resolved from its start_time and end_time.
BoundsResolved(job) ==
    /\ find_closest_block(chain, job.start_time) = [kind |-> "ret", block |-> job.start_block]
    /\ find_closest_block(chain, job.end_time) = [kind |-> "ret", block |-> job.end_block]

\* C25 as stated: a pending job has both bounds null; a processing or
\* completed job has both bounds filled in with the resolved block numbers.
C25_JobBoundsInvariant ==
    \A j \in DOMAIN jobs :
        /\ jobs[j].status = "pending" => BoundsNull(jobs[j])
        /\ jobs[j].status \in {"processing", "completed"} => BoundsResolved(jobs[j])

\* C25 amended: a pending job has both bounds null; a completed job has both
\* filled in with the resolved block numbers; a processing job has both null
\* (until the resolved bounds are persisted) or both filled in with the
\* resolved block numbers, never one without the other.
C25_JobBoundsAmended ==
    \A j \in DOMAIN jobs :
        /\ jobs[j].status = "pending" => BoundsNull(jobs[j])
        /\ jobs[j].status = "completed" => BoundsResolved(jobs[j])
        /\ jobs[j].status = "processing" => BoundsNull(jobs[j]) \/ BoundsResolved(jobs[j])

\* C25 witness: a processing job whose bounds were persisted, left behind by
\* a worker that failed, next to nothing else in progress.
C25_Witness ==
    \E j \in DOMAIN jobs :
        /\ jobs[j].status = "processing"
        /\ jobs[j].start_block # Null
        /\ jobs[j].start_block < jobs[j].end_block
        /\ j \in failedJobs

\* The rows of every group the scanner returns for the job's bounds exist.
GroupsPersisted(job) ==
    LET g == get_events_range(chain, job.start_block, job.end_block) IN
    \A k \in DOMAIN g :
        /\ \E b \in blocks : b.hash = BlockHash(k[1]) /\ b.number = k[1]
        /\ \A t \in g[k] : \E r \in txs : r.hash = t /\ r.block_hash = BlockHash(k[1])

\* C26: for a completed job every group the scanner returns for its bounds
\* has its Block row and every transaction of the group its FeeRecord row; the
\* step that sets a job to completed is taken when no group is left and the
\* rows are already there.
C26_CompletedMeansPersisted ==
    /\ [](\A j \in DOMAIN jobs : jobs[j].status = "completed" => GroupsPersisted(jobs[j]))
    /\ [][\A j \in DOMAIN jobs :
            (jobs[j].status # "completed" /\ jobs'[j].status = "completed")
            => /\ wPc = "groups" /\ wJob = j /\ DOMAIN wGroups = {}
               /\ GroupsPersisted(jobs[j])
               /\ UNCHANGED <<blocks, txs>>]_vars

\* C26 witness: a completed job whose range holds two groups, one of them
\* with two transactions.
C26_Witness ==
    \E j \in DOMAIN jobs :
        /\ jobs[j].status = "completed"
        /\ Cardinality(DOMAIN get_events_range(chain, jobs[j].start_block, jobs[j].end_block)) = 2
        /\ \E k \in DOMAIN get_events_range(chain, jobs[j].start_block, jobs[j].end_block) :
              Cardinality(get_events_range(chain, jobs[j].start_block, jobs[j].end_block)[k]) = 2

\* x and y are the same f64.
F64Same(x, y) ==
    /\ x.kind = y.kind
    /\ x.kind = "finite" =>
          LET s == Min(x.e, y.e)
          IN  BigMul(x.m, BigPow2(x.e - s)) = BigMul(y.m, BigPow2(y.e - s))

\* C28: the fee the worker computes for a transaction of a group is the
\* result calculate_tx_fee_usdt gives for the same gas price, gas used and
\* rate.
C28_BatchFeeIsCalculatorFee ==
    fPc = "batch" =>
        F64Same(fOut, calculate_tx_fee_usdt_f64(BigOfDec(fIn.gas_price),
                                                BigFromInt(fIn.gas_used),
                                                F64Of(fIn.eth_usdt)))

\* The step is a request to get_fee and its response.
FeeStep == <<qReq', qResp'>> # <<qReq, qResp>>

\* "0x" followed by 64 hexadecimal characters of either case.
WellFormedHash(h) ==
    /\ Len(h) = 66
    /\ SubSeq(h, 1, 2) = <<"0", "x">>
    /\ \A i \in 3..66 : \E d \in 1..22 : h[i] = <<"0", "1", "2", "3", "4", "5", "6", "7", "8", "9",
                                                  "a", "b", "c", "d", "e", "f",
                                                  "A", "B", "C", "D", "E", "F">>[d]

\* C21: get_fee answers 400 with the error "Invalid transaction hash format"
\* exactly when the hash is not "0x" and 64 hexadecimal characters of either
\* case; for a well-formed hash, the store answering the query, it answers 404
\* when no fee row with that hash joined to its block row exists, and otherwise
\* 200 with the fee row's hash, block hash and fee and the block row's number
\* and rate; the lookup changes no table and nothing of the ingester.
C21_FeeLookup ==
    [][FeeStep =>
        /\ UNCHANGED <<blocks, txs, jobs, queue, ivars>>
        /\ qResp'.status = 400 <=> ~WellFormedHash(qReq'.tx_hash)
        /\ qResp'.status = 400 => qResp'.error = "Invalid transaction hash format"
        /\ (WellFormedHash(qReq'.tx_hash) /\ qReq'.outcome = "ok") =>
              IF \E t \in txs, b \in blocks :
                    HashText(t.hash) = qReq'.tx_hash /\ t.block_hash = b.hash
              THEN \E t \in txs, b \in blocks :
                      /\ HashText(t.hash) = qReq'.tx_hash /\ t.block_hash = b.hash
                      /\ qResp' = [status |-> 200, error |-> "", tx_hash |-> qReq'.tx_hash,
                                   block_hash |-> t.block_hash, block_number |-> b.number,
                                   fee_usdt |-> t.fee_usdt, eth_usdt_ratio |-> b.eth_usdt]
              ELSE qResp'.status = 404]_vars

\* C21 witness: the fee of a transaction the ingester has stored was looked
\* up and answered with its rows' values.
C21_Witness ==
    /\ qResp.status = 200
    /\ qReq.tx_hash = HashText("t2")
    /\ qResp.block_number = Receipt("t2").block_number
    /\ qResp.fee_usdt > 0
    /\ qResp.eth_usdt_ratio \in Rates

\* C30: no component task is stopped because another one has ended: a task
\* stops only by ending itself.
C30_TaskIsolation ==
    /\ wPc # "cancelled"
    /\ iPc # "cancelled"
    /\ apiPc # "cancelled"

\* The worker's positions after its UPDATE to 'processing': in the pipeline.
InPipeline(pc) == pc \in {"resolve", "scan", "groups", "txs", "hung"}

\* C29: of two workers that were delivered the same pending job id at most
\* one sets the job to processing and runs the pipeline for it.
C29_TwoWorkersOneRun ==
    ~(InPipeline(wPc) /\ InPipeline(w2Pc) /\ wJob = w2Job)

\* C27: with no call failing and the tasks scheduled fairly, on a chain of
\* 12-second blocks, every job that is pending and on the queue is
\* eventually completed.
C27_JobLiveness ==
    \A j \in 1..MaxJobs :
        (/\ Regular(chain)
         /\ j \in DOMAIN jobs
         /\ jobs[j].status = "pending"
         /\ \E i \in DOMAIN queue : queue[i] = j)
        ~> (j \in DOMAIN jobs /\ jobs[j].status = "completed")

\* C37: an iteration of the loop of find_closest_block issues one or two
\* block lookups, never three or more, before it returns or re-seeds.
C37_LookupsPerStep == rPc \in {"loop", "done"} => rLookups <= 2

\* C32: while a run of the ingester has not failed, every transaction hash
\* it has marked seen has its FeeRecord row or is the one being processed: no
\* hash is left marked seen (its later logs skipped) without a row.
C32_RealtimeCompleteness ==
    iPc \in {"wait", "store_block", "store_tx"} =>
        \A t \in seen_txs : HasRow(txs, t) \/ iCur.tx = t

\* C33: a request to create_batch_job that is answered with an error (400
\* or 500) has created no BatchJob row.
C33_SubmissionAtomicity ==
    [][(CreateStep /\ aResp'.status \in {400, 500}) => jobs' = jobs]_vars

\* C34: a step of the ingester, the worker or an endpoint leaves every Block
\* row and every FeeRecord row there is as it is (none updated, none deleted)
\* and removes no BatchJob row; a BatchJob row changes only in a step of the
\* worker on that job, and then only in its status and block bounds; a
\* submission or a lookup changes no existing BatchJob row.
C34_RowImmutability ==
    [][/\ blocks \subseteq blocks'
       /\ txs \subseteq txs'
       /\ Len(jobs') >= Len(jobs)
       /\ \A j \in DOMAIN jobs :
             jobs'[j] # jobs[j] =>
                /\ WorkerMoves
                /\ wJob = j
                /\ jobs'[j].start_time = jobs[j].start_time
                /\ jobs'[j].end_time = jobs[j].end_time
       /\ (aReq' # aReq \/ qReq' # qReq \/ Len(jobs') > Len(jobs)) =>
             \A j \in DOMAIN jobs : jobs'[j] = jobs[j]]_vars

\* C34 witness: rows written by the ingester and by the worker are in the
\* store, the job is completed, and both lookups have answered 200.
C34_Witness ==
    /\ aResp.status = 200
    /\ qResp.status = 200
    /\ Len(jobs) = 1 /\ jobs[1].status = "completed"
    /\ seen_txs # {}
    /\ Cardinality(blocks) = 2
    /\ Cardinality(txs) = 3

\* C31: the job the worker starts is the one submitted first among the
\* jobs whose ids wait in the queue: no id pushed earlier is still waiting.
C31_QueueOrder ==
    [][(wPc = "idle" /\ wPc' = "claimed") =>
          \A i \in DOMAIN queue : wJob' <= queue[i]]_vars

\* C36: avg_ts_to_block_number(A, target, srcTs, srcBlock), for a positive A,
\* returns max(0, srcBlock - d) when d >= 0 and min(u64::MAX, srcBlock + |d|)
\* when d < 0, where d is (srcTs - target) / A truncated toward zero (|d| is
\* the largest q with q * A <= |srcTs - target|, and d has the difference's
\* sign); so a difference smaller than A in absolute value gives srcBlock
\* itself, and a difference of exactly A gives srcBlock - 1 (block 0 stays 0
\* by the max).
C36_SeedEstimate ==
    sPc = "done" =>
        LET A == sIn.avg_block_time
            diff == sIn.src_ts - sIn.target_ts
            n == sIn.src_block_num
            q == CHOOSE k \in 0..Abs(diff) : k * A <= Abs(diff) /\ Abs(diff) < (k + 1) * A
            sum == BigAdd(n, BigFromInt(q))
        IN  /\ diff >= 0 =>
                sOut = (IF BigCmp(n, BigFromInt(q)) >= 0 THEN BigSub(n, BigFromInt(q)) ELSE <<>>)
            /\ diff < 0 =>
                sOut = (IF BigCmp(sum, U64_MAX) > 0 THEN U64_MAX ELSE sum)
            /\ BigCmp(sOut, U64_MAX) <= 0
            /\ Abs(diff) < A => sOut = n
            /\ diff = A => sOut = (IF n = <<>> THEN <<>> ELSE BigSub(n, <<1>>))

\* A target thirteen seconds after the source at twelve seconds a block:
\* one block up, not two.
C36_Witness ==
    /\ sPc = "done"
    /\ sIn.avg_block_time = AVG_BLOCK_TIME
    /\ sIn.src_ts - sIn.target_ts = -13
    /\ sIn.src_block_num = BigFromInt(STestBlock)
    /\ sOut = BigFromInt(STestBlock + 1)

\* The decimal text of a natural number of the model's integers.
RECURSIVE IntText(_)
IntText(n) == IF n < 10 THEN <<Digits[n + 1]>> ELSE IntText(n \div 10) \o <<Digits[(n % 10) + 1]>>

\* The request has a startTime of timestamp * 1000: the timestamp's digits
\* and three zeros (0 for the timestamp 0).
StartTimeOf(ts) == IF ts = 0 THEN <<"0">> ELSE IntText(ts) \o <<"0", "0", "0">>

\* The text at index 4 of the first candle of a response, if there is one.
HasCloseText(body) ==
    /\ body.type = "array"
    /\ Len(body.items) >= 1
    /\ body.items[1].type = "array"
    /\ Len(body.items[1].items) >= 5
    /\ body.items[1].items[5].type = "string"

CloseText(body) == body.items[1].items[5].s

\* C35: get_pair_price requests the klines of the pair with interval 1s and
\* limit 1, with startTime = timestamp * 1000 when a timestamp is given and
\* no startTime otherwise; when the request is answered it returns the
\* number that the string at index 4 of the first candle parses to, and an
\* error when the response is not a list, the list is empty, the first
\* element has no string at index 4 or that string is no number (the error
\* of a response that is JSON is the price error, not the client's).
C35_PriceExtraction ==
    pPc = "done" =>
        /\ Len(pOut.url) = (IF pIn.ts.some THEN 5 ELSE 4)
        /\ pOut.url[2] = <<"symbol", PAIR>>
        /\ pOut.url[3] = <<"interval", "1s">>
        /\ pOut.url[4] = <<"limit", "1">>
        /\ pIn.ts.some => pOut.url[5] = <<"startTime", StartTimeOf(pIn.ts.ts)>>
        /\ pIn.transport = "ok" =>
            /\ pOut.result.ok <=>
                  (HasCloseText(pIn.body) /\ CloseText(pIn.body) \in PNumberTexts)
            /\ pOut.result.ok =>
                  /\ pOut.result.neg = parse_f64(CloseText(pIn.body)).neg
                  /\ F64Same(pOut.result.price, parse_f64(CloseText(pIn.body)).price)
            /\ (~pOut.result.ok /\ pIn.body.type # "invalid") =>
                  pOut.result.error = "Failed to parse price from provider response"
        /\ (pOut.result.ok /\ CloseText(pIn.body) = PClose2) =>
              F64Same(pOut.result.price,
                      [kind |-> "finite",
                       m |-> BigAdd(BigMul(BigFromInt(4675031), BigPow2(30)), BigFromInt(42949673)),
                       e |-> -41])

\* The first test of test_binance_get_pair_price: the candle at 1706826922
\* closes at "2297.12000000" and the price is the f64 2297.12, that is
\* 5051420300793610 * 2^-41 (5051420300793610 = 4704501 * 2^30 + 816043786);
\* a second candle in the response is not looked at.
C35_Witness ==
    /\ pPc = "done"
    /\ pIn.ts = SomeTs(1706826922)
    /\ pIn.body = JArray(<<Candle(JString(PClose1)), Candle(JString(PClose2))>>)
    /\ pOut.url[5] = <<"startTime", <<"1", "7", "0", "6", "8", "2", "6", "9", "2", "2", "0", "0", "0">>>>
    /\ pOut.result.ok
    /\ ~pOut.result.neg
    /\ F64Same(pOut.result.price,
               [kind |-> "finite",
                m |-> BigAdd(BigMul(BigFromInt(4704501), BigPow2(30)), BigFromInt(816043786)),
                e |-> -41])

====
